---- MODULE Spec2Model ----
(***************************************************************************)
(* Model of the ingestion / write pipeline of dcube-conv.                  *)
(*                                                                         *)
(*   Spec        DataCubeLoader (loader.py): progress file, discovery,     *)
(*               _fetch_datacubes and the iter_datacubes consumer.         *)
(*   FairSpec    the same where every decode returns a record or None,     *)
(*               the event loop runs what is ready and the consumer keeps  *)
(*               asking.                                                   *)
(*   WriterSpec  Converter._async_save (convert.py) with CubeTraces.save   *)
(*               (model/__init__.py): the worker holds a permit of `limit` *)
(*               while save takes the lock of the cube id and encodes in a *)
(*               thread.                                                   *)
(*               WriterFairSpec is its fair version.                       *)
(*   OldSpec     LoaderDataCube.iter_datacube (convert.py); OldFairSpec is *)
(*               its fair version.                                         *)
(*   SitesSpec   CubeSites (stations.py): process_datacubes with add_site, *)
(*               get_site and fill_endtimes, over StationMapper's          *)
(*               get_station (station_mapper.py).                          *)
(*   MapperSpec  StationMapper (station_mapper.py): prepare() with         *)
(*               check_geopackage and load_geopackage over the features of *)
(*               a geopackage, then get_station and get_channel_map.       *)
(*                                                                         *)
(* Coroutines run on one asyncio event loop: `ready` is the loop's FIFO of *)
(* callbacks; a step takes the head task and runs it up to its next        *)
(* suspension.  Work given to asyncio.to_thread ends at any time and then  *)
(* appends the waiting task to `ready`.                                    *)
(***************************************************************************)
EXTENDS Integers, Sequences, FiniteSets, TLC

\* ------------------------------------------------------------------ bounds
\* queue_size (a PositiveInt of the configuration) ranges over 1..MaxQueueSize
MaxQueueSize == 2
\* write_threads (a PositiveInt of the configuration) ranges over 1..MaxWriteThreads
MaxWriteThreads == 2
\* the writer is given at most MaxRecords resolved records
MaxRecords == 4
\* LoaderDataCube is given 0..MaxOldFiles files
MaxOldFiles == 3
\* the maxsize of LoaderDataCube's queue; the source sets 20 (convert.py:80),
\* scaled down so that the runs with a full queue can be enumerated
OldQueueMaxsize == 2
\* the resolver is fed at most MaxCubes decoded records
MaxCubes == 3
\* a geopackage has at most MaxFeatures features
MaxFeatures == 2

\* ------------------------------------------------------------------ helpers
Range(s) == {s[i] : i \in 1..Len(s)}

RECURSIVE SeqOfSet(_)
\* the elements of a finite set of integers in increasing order
SeqOfSet(S) ==
    IF S = {} THEN <<>>
    ELSE LET m == CHOOSE x \in S : \A y \in S : x <= y
         IN <<m>> \o SeqOfSet(S \ {m})

RemoveAll(s, S) == SelectSeq(s, LAMBDA x : x \notin S)

\* ------------------------------------------------------------ paths, names
\* A path is the sequence of its characters.
IsSpace(c) == c = " "

RECURSIVE LStrip(_)
LStrip(s) == IF s # <<>> /\ IsSpace(Head(s)) THEN LStrip(Tail(s)) ELSE s

RECURSIVE RStrip(_)
RStrip(s) ==
    IF s # <<>> /\ IsSpace(s[Len(s)]) THEN RStrip(SubSeq(s, 1, Len(s) - 1)) ELSE s

\* str.strip()
Strip(s) == RStrip(LStrip(s))

RECURSIVE LStripDots(_)
\* str.lstrip(".")
LStripDots(s) == IF s # <<>> /\ Head(s) = "." THEN LStripDots(Tail(s)) ELSE s

LastIndexOf(s, c) ==
    LET I == {i \in 1..Len(s) : s[i] = c}
    IN IF I = {} THEN 0 ELSE CHOOSE i \in I : \A j \in I : j <= i

\* Path.name: what follows the last "/"
PathName(p) == SubSeq(p, LastIndexOf(p, "/") + 1, Len(p))

\* Path.suffix: the last "." of the name and what follows it ("" when the name
\* has no inner dot or ends with one)
PathSuffix(p) ==
    LET n == PathName(p)
        k == LastIndexOf(n, ".")
    IN IF k <= 1 \/ k = Len(n) THEN <<>> ELSE SubSeq(n, k, Len(n))

\* Path.stem: the name without its suffix
PathStem(p) ==
    LET n == PathName(p)
    IN SubSeq(n, 1, Len(n) - Len(PathSuffix(p)))

UpperChar(c) ==
    CASE c = "a" -> "A" [] c = "b" -> "B" [] c = "c" -> "C" [] c = "d" -> "D"
      [] c = "e" -> "E" [] c = "x" -> "X" [] c = "y" -> "Y" [] OTHER -> c

\* str.upper()
Upper(s) == [i \in 1..Len(s) |-> UpperChar(s[i])]

\* the device id of a file: file.suffix.lstrip(".").upper()
CubeIdOf(p) == Upper(LStripDots(PathSuffix(p)))

\* ------------------------------------------------------- the files on disk
\* What rglob("*.*") finds under the configured directories: for each file its
\* path and what stat() and datacube.detect() say about it.
Disk ==
    1 :> [path |-> <<"d", "/", "a", ".", "x">>, big |-> TRUE, recent |-> TRUE,
          cube |-> TRUE]
    @@ 2 :> [path |-> <<"d", "/", "b", ".", "y">>, big |-> TRUE, recent |-> TRUE,
             cube |-> TRUE]
    @@ 3 :> [path |-> <<"e", "/", "a", ".", "x">>, big |-> TRUE, recent |-> TRUE,
             cube |-> TRUE]
    @@ 4 :> [path |-> <<"e", "/", "c", ".", "x", " ">>, big |-> TRUE,
             recent |-> TRUE, cube |-> TRUE]

DiskFiles == DOMAIN Disk

PathOf(f) == Disk[f].path

\* the allow-lists of the configurations explored (cube_ids)
AllowLists == {{}, {<<"a">>}}

\* add_done's line for a file: f"{cube.path}\n", the line break left out
DoneLine(f) == PathOf(f)

\* the progress files a previous run over these files can have left
ProgressFiles == {[i \in 1..Len(SeqOfSet(S)) |-> DoneLine(SeqOfSet(S)[i])] : S \in SUBSET DiskFiles}

\* int(round(self.queue_size / 2) + 1); Python's round goes to the even integer
\* at .5
PyRoundHalf(q) ==
    LET k == q \div 2
    IN IF q % 2 = 0 THEN k ELSE IF k % 2 = 0 THEN k ELSE k + 1

\* mutant: as many permits as the queue size, plus one
SemInitialFull(q) == q + 1

\* mutant: the "+ 1" is lost
SemInitialHalf(q) == PyRoundHalf(q)

SemInitial(q) == PyRoundHalf(q) + 1

\* asyncio.Queue(): default_factory=asyncio.Queue gives maxsize 0, unbounded
LoaderQueueMaxsize == 0

\* asyncio.Queue.full()
QueueFull(q, maxsize) == IF maxsize <= 0 THEN FALSE ELSE Len(q) >= maxsize

\* -------------------------------------------------- asyncio.Semaphore
\* value, the waiters not yet woken (FIFO), and the woken waiters that have
\* not run yet (their futures are done but still in _waiters).
SemLocked(s) == s.value = 0 \/ s.waiters # <<>> \/ s.woken # {}

\* acquire() when not locked
SemTake(s) == [s EXCEPT !.value = @ - 1]

\* acquire() when locked: queue behind the others
SemEnqueue(s, t) == [s EXCEPT !.waiters = Append(@, t)]

RECURSIVE SemWakeWhile(_)
\* while self._value > 0: wake the next waiter, handing it the permit
SemWakeWhile(s) ==
    IF s.value > 0 /\ s.waiters # <<>>
    THEN SemWakeWhile([value |-> s.value - 1, waiters |-> Tail(s.waiters),
                       woken |-> s.woken \cup {Head(s.waiters)}])
    ELSE s

\* mutant: release() wakes the waiter that came last
SemReleaseLast(s) ==
    IF s.waiters # <<>>
    THEN [s EXCEPT !.waiters = SubSeq(@, 1, Len(@) - 1),
                   !.woken = @ \cup {s.waiters[Len(s.waiters)]}]
    ELSE [s EXCEPT !.value = @ + 1]

\* release(): value += 1, then _wake_up_next()
SemRelease(s) ==
    IF s.waiters # <<>>
    THEN [s EXCEPT !.waiters = Tail(@), !.woken = @ \cup {Head(s.waiters)}]
    ELSE [s EXCEPT !.value = @ + 1]

\* a woken waiter runs: it leaves _waiters and wakes as many as value allows
SemResume(s, t) == SemWakeWhile([s EXCEPT !.woken = @ \ {t}])

\* the tasks release() or a resuming waiter has just woken, in wake-up order
NewlyWoken(old, new) ==
    SelectSeq(old.waiters, LAMBDA t : t \in new.woken \ old.woken)

\* -------------------------------------------------------- asyncio.Lock
\* locked, the waiters not yet woken (FIFO) and the woken waiter that has not
\* run yet.  acquire() takes a lock that is unlocked and has no waiter.
LockFree(l) == ~l.locked /\ l.waiters = <<>> /\ l.woken = {}

LockTake(l) == [l EXCEPT !.locked = TRUE]

LockEnqueue(l, t) == [l EXCEPT !.waiters = Append(@, t)]

\* mutant: release() unlocks and wakes no waiter
LockReleaseSilent(l) == [l EXCEPT !.locked = FALSE]

\* release(): unlock, then _wake_up_first()
LockRelease(l) ==
    IF l.waiters # <<>> /\ l.woken = {}
    THEN [locked |-> FALSE, waiters |-> Tail(l.waiters), woken |-> {Head(l.waiters)}]
    ELSE [l EXCEPT !.locked = FALSE]

\* the woken waiter runs: it leaves _waiters and takes the lock
LockResume(l, t) == [l EXCEPT !.woken = @ \ {t}, !.locked = TRUE]

UnusedLock == [locked |-> FALSE, waiters |-> <<>>, woken |-> {}]

\* mutant: a new lock on every call
get_lock_fresh(ls, cube_id) == UnusedLock

\* WRITE_LOCKS[cube_id]: one lock per device id, made on first use
get_lock(ls, cube_id) == ls[cube_id]

\* the device ids of the records given to the writer
Devices == {"A", "B"}

\* mutant: one permit too many
LimitInitialPlusOne(w) == w + 1

\* asyncio.Semaphore(self.write_threads)
LimitInitial(w) == w


\* ------------------------------------------------------------------ state
\* ------------------------------------------- decoded records and stations
\* Locations lie on one line; a position is metres along it.  NoFix stands for
\* a GPS fix that coordinates_from_gps turns into NaN or 0.0 coordinates.
NoFix == -1
Positions == {0, 10, 25, 60}

\* float("nan"), a coordinate of a feature or a distance to it
NaN == -2

\* `x < y` and `x > y` of floats: false when either is NaN
FloatLess(x, y) == x # NaN /\ y # NaN /\ x < y
FloatGreater(x, y) == FloatLess(y, x)

\* Location.surface_distance_to; the distance to a NaN coordinate is NaN
surface_distance_to(a, b) ==
    IF a = NaN \/ b = NaN THEN NaN
    ELSE IF a >= b THEN a - b ELSE b - a

\* the default of is_close's distance_threshold_meters
ProximityThreshold == 25

\* mutant: the comparison includes the threshold
is_close_inclusive(a, b) == surface_distance_to(a, b) <= ProximityThreshold

\* Location.is_close
is_close(a, b) == surface_distance_to(a, b) < ProximityThreshold

\* tmin and tmax of the first trace of a record
TimeRanges == {<<1, 2>>, <<3, 4>>, <<5, 6>>}

\* utils.DATETIME_MAX, later than every time of a record
DATETIME_MAX == 99

\* the decoded records the resolver can be fed: cube A anywhere, with or
\* without a fix, cube B at one place or without a fix
CubeRecords ==
    {[cube_id |-> "A", pos |-> p, start_time |-> r[1], end_time |-> r[2]] :
        p \in Positions \cup {NoFix}, r \in TimeRanges}
    \cup {[cube_id |-> "B", pos |-> 0, start_time |-> 1, end_time |-> 2],
          [cube_id |-> "B", pos |-> NoFix, start_time |-> 3, end_time |-> 4]}

\* StationMapper.distance_threshold
distance_threshold == 25

\* the stations of a geopackage
Catalog ==
    <<[name |-> "S1", pos |-> 0, seismic_sensor |-> "bb"],
      [name |-> "S2", pos |-> 30, seismic_sensor |-> "mark"]>>

\* None as the value of a property of a feature
Missing == "None"

\* the features a geopackage is made of.  Three installed stations that
\* pass every test of check_geopackage, one installed feature for each thing
\* check_geopackage looks at, and three planned ones
GeoFeatures ==
    LET Ok(n, p, s) == [status |-> "installed", station_name |-> n,
                        seismic_sensor |-> s, has_geometry |-> TRUE, pos |-> p,
                        elevation |-> 100]
    IN {Ok("S1", 0, "bb"), Ok("S2", 20, "mark"), Ok("S3", 50, "4.5hz"),
        [Ok("S4", 0, "bb") EXCEPT !.station_name = Missing],
        [Ok("S4", 0, "bb") EXCEPT !.station_name = ""],
        [Ok("S4", 0, "bb") EXCEPT !.seismic_sensor = Missing],
        [Ok("S4", 0, "bb") EXCEPT !.has_geometry = FALSE],
        [Ok("S4", 0, "bb") EXCEPT !.pos = NaN],
        [Ok("S4", 0, "bb") EXCEPT !.elevation = 0],
        [Ok("P1", 10, "bb") EXCEPT !.status = "planned"],
        [Ok("P2", 10, "bb") EXCEPT !.status = "planned", !.has_geometry = FALSE],
        [Ok("P3", 10, "bb") EXCEPT !.status = "planned", !.elevation = 0]}

\* the geopackages explored: every sequence of at most MaxFeatures features
Geopackages == UNION {[1..n -> GeoFeatures] : n \in 0..MaxFeatures}

\* the station_orientation_overwrites explored, by the names of their stations
OverwriteSets == {{}, {"S1"}, {"S2", "S3"}}

\* the configurations of CubeSites explored: no mapper, a mapper whose
\* geopackage has no feature, a mapper with stations, and with a blacklist
SiteConfigs ==
    {[mapper |-> FALSE, features |-> <<>>, station_blacklist |-> {}],
     [mapper |-> TRUE, features |-> <<>>, station_blacklist |-> {}],
     [mapper |-> TRUE, features |-> Catalog, station_blacklist |-> {}],
     [mapper |-> TRUE, features |-> Catalog, station_blacklist |-> {"S1"}]}

VARIABLES
    \* DataCubeLoader: configuration and discovery
    stage,        \* "config", "scan", "run": how far the run has come
    queue_size,   \* DataCubeLoader.queue_size
    cube_ids,     \* DataCubeLoader.cube_ids, the allow-list
    progress,     \* the lines of the progress file
    done_paths,   \* DataCubeLoader._done_paths
    scanned,      \* the files rglob has produced so far
    filenames,    \* DataCubeLoader._filenames
    files,        \* DataCubeLoader._files
    stats,        \* LoadingStats: n_files, i_files
    \* DataCubeLoader: _fetch_datacubes and iter_datacubes
    iter_left,    \* what iter_files has not produced yet
    sem,          \* the semaphore of _fetch_datacubes
    doneEvent,    \* done.is_set()
    queue,        \* DataCubeLoader._queue: file ids, 0 for None
    ready,        \* the event loop's FIFO of tasks to run
    fetchPc,      \* where the _fetch_datacubes task is
    loadPc,       \* where each load() task is, in creation order
    loadFile,     \* the file each load() task took, 0 before
    loadResult,   \* what its from_file call gave: "ok", "fail", "empty", "" before
    consPc,       \* where the consumer of iter_datacubes is
    decodeRuns,   \* per file: how many from_file calls were started
    delivered,    \* the files iter_datacubes has yielded, in order
    \* Converter._async_save and CubeTraces.save
    wStage,       \* "off", "run", "done"
    write_threads, \* Converter.write_threads
    wInput,       \* the device ids of the resolved records, in the order given
    wPc,          \* where each worker() task is, in creation order
    limit,        \* the semaphore of _async_save
    locks,        \* WRITE_LOCKS
    wReady,       \* the event loop's FIFO of tasks to run
    encodeOrder,  \* the worker tasks in the order their encode was started
    doneLog,      \* the worker tasks whose path add_done wrote to the progress file
    progressFile, \* the bytes of the progress file
    \* LoaderDataCube.iter_datacube (convert.py)
    oStage,       \* "off", "init", "run"
    oFiles,       \* how many files scan() found: _files is <<1, ..., oFiles>>
    oTaken,       \* how many of them the shared iterator has produced
    oQueue,       \* the queue: file ids, 0 for None
    oPutters,     \* the tasks waiting in queue.put(), FIFO
    oTasks,       \* the fetch() and worker() tasks, in creation order
    oReady,       \* the event loop's FIFO of tasks to run
    oConsPc,      \* where the body of iter_datacube is
    oDelivered,   \* the files iter_datacube has yielded, in order
    \* CubeSites (stations.py)
    sStage,       \* "off", "run", "filled" (input exhausted), "failed" (raised)
    sConf,        \* mapper, its _features and station_blacklist
    sites,        \* cube id -> list of CubeSite
    sStats,       \* SitesStats: n_sites, n_stations, n_no_site
    no_site_info, \* cube ids without a site
    sFed,         \* the records process_datacubes has taken from `cubes`
    sLookups,     \* for each of them what get_site gave: the index of the site in
                  \* the cube's list, 0 for None, -1 when get_site was not reached
    sOut,         \* the records process_datacubes has yielded
    persisted,    \* the sites in the file at _dump_path, as save() wrote them
    \* StationMapper (station_mapper.py)
    mStage,       \* "off", "new", "ready" (prepare returned), "failed" (it raised)
    geopackage,   \* the features of the file `geopackage`
    overwrites,   \* the station names in station_orientation_overwrites
    mVerdict,     \* what check_geopackage returned: "none" before, "True", "False",
                  \* or "raised"
    mFeatures,    \* _features
    mOut          \* the last call of get_station or get_channel_map and its result

confVars == <<queue_size, cube_ids, progress>>
discVars == <<done_paths, scanned, filenames, files, stats>>
runVars == <<iter_left, sem, doneEvent, queue, ready, fetchPc, loadPc, loadFile,
             loadResult, consPc, decodeRuns, delivered>>
loaderVars == <<stage, confVars, discVars, runVars>>

writerVars == <<wStage, write_threads, wInput, wPc, limit, locks, wReady, encodeOrder,
               doneLog,
               progressFile>>
oldVars == <<oStage, oFiles, oTaken, oQueue, oPutters, oTasks, oReady, oConsPc,
            oDelivered>>
sitesVars == <<sStage, sConf, sites, sStats, no_site_info, sFed, sLookups, sOut,
              persisted>>
mapperVars == <<mStage, geopackage, overwrites, mVerdict, mFeatures, mOut>>
nonLoaderVars == <<writerVars, oldVars, sitesVars, mapperVars>>
nonWriterVars == <<loaderVars, oldVars, sitesVars, mapperVars>>
nonOldVars == <<loaderVars, writerVars, sitesVars, mapperVars>>
nonSitesVars == <<loaderVars, writerVars, oldVars, mapperVars>>
nonMapperVars == <<loaderVars, writerVars, oldVars, sitesVars>>

vars == <<loaderVars, writerVars, oldVars, sitesVars, mapperVars>>

FetchTask == 0
ConsumerTask == -1
LoadTasks == 1..Len(loadPc)

LoaderStart ==
    /\ stage = "config"
    /\ queue_size \in 1..MaxQueueSize
    /\ cube_ids \in AllowLists
    /\ progress \in ProgressFiles
    /\ done_paths = {}
    /\ scanned = {}
    /\ filenames = {}
    /\ files = {}
    /\ stats = [n_files |-> 0, i_files |-> 0]
    /\ iter_left = {}
    /\ sem = [value |-> 0, waiters |-> <<>>, woken |-> {}]
    /\ doneEvent = FALSE
    /\ queue = <<>>
    /\ ready = <<>>
    /\ fetchPc = "none"
    /\ loadPc = <<>>
    /\ loadFile = <<>>
    /\ loadResult = <<>>
    /\ consPc = "none"
    /\ decodeRuns = [f \in DiskFiles |-> 0]
    /\ delivered = <<>>

\* the loader is not part of the run
LoaderIdle ==
    /\ stage = "off"
    /\ queue_size = 1
    /\ cube_ids = {}
    /\ progress = <<>>
    /\ done_paths = {}
    /\ scanned = {}
    /\ filenames = {}
    /\ files = {}
    /\ stats = [n_files |-> 0, i_files |-> 0]
    /\ iter_left = {}
    /\ sem = [value |-> 0, waiters |-> <<>>, woken |-> {}]
    /\ doneEvent = FALSE
    /\ queue = <<>>
    /\ ready = <<>>
    /\ fetchPc = "none"
    /\ loadPc = <<>>
    /\ loadFile = <<>>
    /\ loadResult = <<>>
    /\ consPc = "none"
    /\ decodeRuns = [f \in DiskFiles |-> 0]
    /\ delivered = <<>>

\* the writer is not part of the run
WriterIdle ==
    /\ wStage = "off"
    /\ write_threads = 1
    /\ wInput = <<>>
    /\ wPc = <<>>
    /\ limit = [value |-> 0, waiters |-> <<>>, woken |-> {}]
    /\ locks = [d \in Devices |-> UnusedLock]
    /\ wReady = <<>>
    /\ encodeOrder = <<>>
    /\ doneLog = <<>>
    /\ progressFile = <<>>

\* _async_save is entered: the semaphore is made, no record has come yet
WriterStart ==
    /\ wStage = "run"
    /\ write_threads \in 1..MaxWriteThreads
    /\ wInput \in UNION {[1..n -> Devices] : n \in 0..MaxRecords}
    /\ wPc = <<>>
    /\ limit = [value |-> LimitInitial(write_threads), waiters |-> <<>>, woken |-> {}]
    /\ locks = [d \in Devices |-> UnusedLock]
    /\ wReady = <<>>
    /\ encodeOrder = <<>>
    /\ doneLog = <<>>
    /\ progressFile = <<>>

\* LoaderDataCube is not part of the run
OldIdle ==
    /\ oStage = "off"
    /\ oFiles = 0
    /\ oTaken = 0
    /\ oQueue = <<>>
    /\ oPutters = <<>>
    /\ oTasks = <<>>
    /\ oReady = <<>>
    /\ oConsPc = "none"
    /\ oDelivered = <<>>

\* LoaderDataCube after scan()
OldStart ==
    /\ oStage = "init"
    /\ oFiles \in 0..MaxOldFiles
    /\ oTaken = 0
    /\ oQueue = <<>>
    /\ oPutters = <<>>
    /\ oTasks = <<>>
    /\ oReady = <<>>
    /\ oConsPc = "none"
    /\ oDelivered = <<>>

\* CubeSites is not part of the run
SitesIdle ==
    /\ sStage = "off"
    /\ sConf = [mapper |-> FALSE, features |-> <<>>, station_blacklist |-> {}]
    /\ sites = [d \in Devices |-> <<>>]
    /\ sStats = [n_sites |-> 0, n_stations |-> 0, n_no_site |-> 0]
    /\ no_site_info = {}
    /\ sFed = <<>>
    /\ sLookups = <<>>
    /\ sOut = <<>>
    /\ persisted = [d \in Devices |-> <<>>]

\* CubeSites after prepare(), with an empty site catalog
SitesStart ==
    /\ sStage = "run"
    /\ sConf \in SiteConfigs
    /\ sites = [d \in Devices |-> <<>>]
    /\ sStats = [n_sites |-> 0, n_stations |-> 0, n_no_site |-> 0]
    /\ no_site_info = {}
    /\ sFed = <<>>
    /\ sLookups = <<>>
    /\ sOut = <<>>
    /\ persisted = [d \in Devices |-> <<>>]

\* no StationMapper is part of the run
MapperIdle ==
    /\ mStage = "off"
    /\ geopackage = <<>>
    /\ overwrites = {}
    /\ mVerdict = "none"
    /\ mFeatures = <<>>
    /\ mOut = [op |-> "none"]

\* a StationMapper as constructed, before prepare()
MapperStart ==
    /\ mStage = "new"
    /\ geopackage \in Geopackages
    /\ overwrites \in OverwriteSets
    /\ mVerdict = "none"
    /\ mFeatures = <<>>
    /\ mOut = [op |-> "none"]

Init == LoaderStart /\ WriterIdle /\ OldIdle /\ SitesIdle /\ MapperIdle

WriterInit == LoaderIdle /\ WriterStart /\ OldIdle /\ SitesIdle /\ MapperIdle

OldInit == LoaderIdle /\ WriterIdle /\ OldStart /\ SitesIdle /\ MapperIdle

SitesInit == LoaderIdle /\ WriterIdle /\ OldIdle /\ SitesStart /\ MapperIdle

MapperInit == LoaderIdle /\ WriterIdle /\ OldIdle /\ SitesIdle /\ MapperStart

\* ------------------------------------------------------------ discovery
\* set_progress_file: every line of the file, stripped, is a done path
set_progress_file ==
    /\ UNCHANGED nonLoaderVars
    /\ stage = "config"
    /\ done_paths' = {Strip(progress[i]) : i \in 1..Len(progress)}
    /\ stage' = "scan"
    /\ UNCHANGED <<confVars, scanned, filenames, files, stats, runVars>>

\* mutant: the whole path is compared with the paths accepted so far
DuplicatePath(f) == PathOf(f) \in {PathOf(g) : g \in files}

\* `file.name in self._filenames`
DuplicateName(f) == PathName(PathOf(f)) \in filenames

\* the filters of _scan_datacube_files, in the order of the code
ScanAccepts(f) ==
    LET p == PathOf(f)
    IN /\ (cube_ids = {} \/ LStripDots(PathStem(p)) \in cube_ids)
       /\ p \notin done_paths
       /\ ~DuplicateName(f)
       /\ Disk[f].big
       /\ Disk[f].recent
       /\ Disk[f].cube

\* one round of prepare's loop over _scan_datacube_files: rglob gives the next
\* file, in no particular order
prepare(f) ==
    /\ UNCHANGED nonLoaderVars
    /\ stage = "scan"
    /\ f \in DiskFiles \ scanned
    /\ scanned' = scanned \cup {f}
    /\ IF ScanAccepts(f)
       THEN /\ filenames' = filenames \cup {PathName(PathOf(f))}
            /\ files' = files \cup {f}
            /\ stats' = [stats EXCEPT !.n_files = @ + 1]
       ELSE UNCHANGED <<filenames, files, stats>>
    /\ UNCHANGED <<stage, confVars, done_paths, runVars>>

\* --------------------------------------------------------- iter_datacubes
\* put_nowait's _wakeup_next(self._getters): a consumer waiting in get() is
\* scheduled
WakeGetter(rdy) == IF consPc = "getWait" THEN Append(rdy, ConsumerTask) ELSE rdy
GetterPc == IF consPc = "getWait" THEN "get" ELSE consPc

\* iter_datacubes up to its first get(): the fetch task is created, the queue
\* is empty and the consumer waits
iter_datacubes ==
    /\ UNCHANGED nonLoaderVars
    /\ stage = "scan"
    /\ scanned = DiskFiles
    /\ stage' = "run"
    /\ iter_left' = files
    /\ sem' = [value |-> SemInitial(queue_size), waiters |-> <<>>, woken |-> {}]
    /\ ready' = <<FetchTask>>
    /\ fetchPc' = "begin"
    /\ consPc' = "getWait"
    /\ UNCHANGED <<confVars, discVars, doneEvent, queue, loadPc, loadFile,
                   loadResult, decodeRuns, delivered>>

Running(t) == stage = "run" /\ ready # <<>> /\ Head(ready) = t

AllLoadsOver(pcs) == \A i \in 1..Len(pcs) : pcs[i] \in {"finished", "cancelled", "raised"}

\* _fetch_datacubes up to the first sleep(0) of its loop
FetchBegin ==
    /\ UNCHANGED nonLoaderVars
    /\ Running(FetchTask)
    /\ fetchPc = "begin"
    /\ fetchPc' = "acquire"
    /\ ready' = Append(Tail(ready), FetchTask)
    /\ UNCHANGED <<stage, confVars, discVars, iter_left, sem, doneEvent, queue,
                   loadPc, loadFile, loadResult, consPc, decodeRuns, delivered>>

\* the body of `async with sem` in the loop, entered with the permit taken in
\* s: create the load task, release, test done, sleep(0) or leave the loop and
\* wait for the task group
FetchCreate(s, rdy) ==
    LET n == Len(loadPc) + 1
        s2 == SemRelease(s)
    IN /\ loadPc' = Append(loadPc, "start")
       /\ loadFile' = Append(loadFile, 0)
       /\ loadResult' = Append(loadResult, "")
       /\ sem' = s2
       /\ IF doneEvent
          THEN /\ fetchPc' = "join"
               /\ ready' = Append(rdy, n) \o NewlyWoken(s, s2)
          ELSE /\ fetchPc' = "acquire"
               /\ ready' = Append(Append(rdy, n) \o NewlyWoken(s, s2), FetchTask)

\* the fetch task after sleep(0): `async with sem`
FetchAcquire ==
    /\ UNCHANGED nonLoaderVars
    /\ Running(FetchTask)
    /\ fetchPc = "acquire"
    /\ IF SemLocked(sem)
       THEN /\ sem' = SemEnqueue(sem, FetchTask)
            /\ fetchPc' = "semWait"
            /\ ready' = Tail(ready)
            /\ UNCHANGED <<loadPc, loadFile, loadResult>>
       ELSE FetchCreate(SemTake(sem), Tail(ready))
    /\ UNCHANGED <<stage, confVars, discVars, iter_left, doneEvent, queue, consPc,
                   decodeRuns, delivered>>

\* the fetch task woken in sem.acquire(): it holds the permit
FetchResume ==
    /\ UNCHANGED nonLoaderVars
    /\ Running(FetchTask)
    /\ fetchPc = "semWait"
    /\ FetchTask \in sem.woken
    /\ LET s == SemResume(sem, FetchTask)
       IN FetchCreate(s, Tail(ready) \o NewlyWoken([sem EXCEPT !.woken = @ \ {FetchTask}], s))
    /\ UNCHANGED <<stage, confVars, discVars, iter_left, doneEvent, queue, consPc,
                   decodeRuns, delivered>>

\* the task group has no task left: await queue.put(None)
FetchPutNone ==
    /\ UNCHANGED nonLoaderVars
    /\ Running(FetchTask)
    /\ fetchPc = "joined"
    /\ ~QueueFull(queue, LoaderQueueMaxsize)
    /\ queue' = Append(queue, 0)
    /\ fetchPc' = "done"
    /\ ready' = WakeGetter(Tail(ready))
    /\ consPc' = GetterPc
    /\ UNCHANGED <<stage, confVars, discVars, iter_left, sem, doneEvent, loadPc,
                   loadFile, loadResult, decodeRuns, delivered>>


\* a load task is over: the task group wakes the fetch task waiting in its
\* __aexit__ once no task is left
JoinPc(pcs) == IF fetchPc = "join" /\ AllLoadsOver(pcs) THEN "joined" ELSE fetchPc
JoinWake(pcs, rdy) ==
    IF fetchPc = "join" /\ AllLoadsOver(pcs) THEN Append(rdy, FetchTask) ELSE rdy

\* load() leaves `async with sem` and returns
LoadReturn(t, rdy) ==
    LET s2 == SemRelease(sem)
        pcs == [loadPc EXCEPT ![t] = "finished"]
    IN /\ sem' = s2
       /\ loadPc' = pcs
       /\ fetchPc' = JoinPc(pcs)
       /\ ready' = JoinWake(pcs, rdy \o NewlyWoken(sem, s2))

\* the body of load() under the semaphore, entered with the permit taken in s:
\* next(iter_files, None), then done.set() and return, or from_file in a thread
LoadBody(t, s, rdy) ==
    IF iter_left = {}
    THEN LET s2 == SemRelease(s)
             pcs == [loadPc EXCEPT ![t] = "finished"]
         IN /\ doneEvent' = TRUE
            /\ sem' = s2
            /\ loadPc' = pcs
            /\ fetchPc' = JoinPc(pcs)
            /\ ready' = JoinWake(pcs, rdy \o NewlyWoken(s, s2))
            /\ UNCHANGED <<iter_left, loadFile, decodeRuns>>
    ELSE \E f \in iter_left :
            /\ iter_left' = iter_left \ {f}
            /\ loadFile' = [loadFile EXCEPT ![t] = f]
            /\ decodeRuns' = [decodeRuns EXCEPT ![f] = @ + 1]
            /\ loadPc' = [loadPc EXCEPT ![t] = "decoding"]
            /\ sem' = s
            /\ ready' = rdy
            /\ UNCHANGED <<doneEvent, fetchPc>>

\* a load task in `async with sem`: a new task takes a permit or queues for
\* one; a task woken in acquire() holds the permit
LoadEnter(t) ==
    /\ UNCHANGED nonLoaderVars
    /\ Running(t)
    /\ t \in LoadTasks
    /\ \/ /\ loadPc[t] = "start"
          /\ IF SemLocked(sem)
             THEN /\ sem' = SemEnqueue(sem, t)
                  /\ loadPc' = [loadPc EXCEPT ![t] = "semWait"]
                  /\ ready' = Tail(ready)
                  /\ UNCHANGED <<iter_left, loadFile, decodeRuns, doneEvent, fetchPc>>
             ELSE LoadBody(t, SemTake(sem), Tail(ready))
       \/ /\ loadPc[t] = "semWait"
          /\ t \in sem.woken
          /\ LET s == SemResume(sem, t)
             IN LoadBody(t, s,
                         Tail(ready) \o NewlyWoken([sem EXCEPT !.woken = @ \ {t}], s))
    /\ UNCHANGED <<stage, confVars, discVars, queue, loadResult, consPc, delivered>>

\* CubeTraces.from_file ends in its thread: iload raised and None is returned
\* ("fail"), a record is built ("ok"), or iload gave no trace and data[0]
\* raises IndexError ("empty"); the load task is scheduled
from_file(t, r) ==
    /\ UNCHANGED nonLoaderVars
    /\ stage = "run"
    /\ t \in LoadTasks
    /\ loadPc[t] = "decoding"
    /\ r \in {"ok", "fail", "empty"}
    /\ loadResult' = [loadResult EXCEPT ![t] = r]
    /\ loadPc' = [loadPc EXCEPT ![t] = "decoded"]
    /\ ready' = Append(ready, t)
    /\ UNCHANGED <<stage, confVars, discVars, iter_left, sem, doneEvent, queue,
                   fetchPc, loadFile, consPc, decodeRuns, delivered>>

\* load() with a record: await queue.put(cube), the statistics, return
LoadPut(t) ==
    /\ UNCHANGED nonLoaderVars
    /\ Running(t)
    /\ t \in LoadTasks
    /\ loadPc[t] = "decoded"
    /\ loadResult[t] = "ok"
    /\ ~QueueFull(queue, LoaderQueueMaxsize)
    /\ queue' = Append(queue, loadFile[t])
    /\ consPc' = GetterPc
    /\ stats' = [stats EXCEPT !.i_files = @ + 1]
    /\ LoadReturn(t, WakeGetter(Tail(ready)))
    /\ UNCHANGED <<stage, confVars, done_paths, scanned, filenames, files,
                   iter_left, doneEvent, loadFile, loadResult, decodeRuns, delivered>>

\* load() with None: return
LoadSkip(t) ==
    /\ UNCHANGED nonLoaderVars
    /\ Running(t)
    /\ t \in LoadTasks
    /\ loadPc[t] = "decoded"
    /\ loadResult[t] = "fail"
    /\ LoadReturn(t, Tail(ready))
    /\ UNCHANGED <<stage, confVars, discVars, iter_left, doneEvent, queue, loadFile,
                   loadResult, consPc, decodeRuns, delivered>>

\* load() with the IndexError of from_file: the task fails, the task group
\* cancels the other load tasks and the fetch task ends with the error before
\* its queue.put(None); no task uses the semaphore again
LoadRaise(t) ==
    /\ UNCHANGED nonLoaderVars
    /\ Running(t)
    /\ t \in LoadTasks
    /\ loadPc[t] = "decoded"
    /\ loadResult[t] = "empty"
    /\ loadPc' = [i \in 1..Len(loadPc) |->
                    IF i = t THEN "raised"
                    ELSE IF loadPc[i] = "finished" THEN "finished" ELSE "cancelled"]
    /\ fetchPc' = "failed"
    /\ ready' = SelectSeq(Tail(ready), LAMBDA x : x = ConsumerTask)
    /\ sem' = [value |-> 0, waiters |-> <<>>, woken |-> {}]
    /\ UNCHANGED <<stage, confVars, discVars, iter_left, doneEvent, queue, loadFile,
                   loadResult, consPc, decodeRuns, delivered>>

\* the consumer in `cube = await self._queue.get()`: wait on an empty queue,
\* break on None, else yield the record downstream
ConsumerGet ==
    /\ UNCHANGED nonLoaderVars
    /\ Running(ConsumerTask)
    /\ consPc = "get"
    /\ ready' = Tail(ready)
    /\ IF queue = <<>>
       THEN /\ consPc' = "getWait"
            /\ UNCHANGED <<queue, delivered>>
       ELSE /\ queue' = Tail(queue)
            /\ IF Head(queue) = 0
               THEN /\ consPc' = "ended"
                    /\ UNCHANGED delivered
               ELSE /\ consPc' = "busy"
                    /\ delivered' = Append(delivered, Head(queue))
    /\ UNCHANGED <<stage, confVars, discVars, iter_left, sem, doneEvent, fetchPc,
                   loadPc, loadFile, loadResult, decodeRuns>>

\* downstream asks for the next record, after however long it took:
\* task_done() and the next get()
ConsumerNext ==
    /\ UNCHANGED nonLoaderVars
    /\ stage = "run"
    /\ consPc = "busy"
    /\ consPc' = "get"
    /\ ready' = Append(ready, ConsumerTask)
    /\ UNCHANGED <<stage, confVars, discVars, iter_left, sem, doneEvent, queue,
                   fetchPc, loadPc, loadFile, loadResult, decodeRuns, delivered>>

Next ==
    \/ set_progress_file
    \/ \E f \in DiskFiles : prepare(f)
    \/ iter_datacubes
    \/ FetchBegin
    \/ FetchAcquire
    \/ FetchResume
    \/ FetchPutNone
    \/ \E t \in LoadTasks : LoadEnter(t)
    \/ \E t \in LoadTasks, r \in {"ok", "fail", "empty"} : from_file(t, r)
    \/ \E t \in LoadTasks : LoadPut(t)
    \/ \E t \in LoadTasks : LoadSkip(t)
    \/ \E t \in LoadTasks : LoadRaise(t)
    \/ ConsumerGet
    \/ ConsumerNext

Spec == Init /\ [][Next]_vars


\* every from_file call returns (a record or None): the runs of C5
NextReturns ==
    \/ set_progress_file
    \/ \E f \in DiskFiles : prepare(f)
    \/ iter_datacubes
    \/ FetchBegin
    \/ FetchAcquire
    \/ FetchResume
    \/ FetchPutNone
    \/ \E t \in LoadTasks : LoadEnter(t)
    \/ \E t \in LoadTasks, r \in {"ok", "fail"} : from_file(t, r)
    \/ \E t \in LoadTasks : LoadPut(t)
    \/ \E t \in LoadTasks : LoadSkip(t)
    \/ ConsumerGet
    \/ ConsumerNext

\* the event loop runs what is ready, every thread ends and the consumer keeps
\* asking for records
FairSpec == Init /\ [][NextReturns]_vars /\ WF_vars(NextReturns)

\* ------------------------------------------------- claims on DataCubeLoader
RecordsQueued == {i \in 1..Len(queue) : queue[i] # 0}
DecodesInFlight == {t \in LoadTasks : loadPc[t] = "decoding"}
Quiescent ==
    /\ stage = "run"
    /\ ready = <<>>
    /\ DecodesInFlight = {}
    /\ consPc # "busy"
ResultOf(f) ==
    IF \E t \in LoadTasks : loadFile[t] = f
    THEN loadResult[CHOOSE t \in LoadTasks : loadFile[t] = f]
    ELSE ""

\* C1: backpressure: in every state of a load at most queue_size decoded records
\* are on the channel, put and not yet taken by the consumer.
C1_Backpressure == Cardinality(RecordsQueued) <= queue_size

\* C8: decode concurrency cap: at most round(queue_size / 2) + 1 from_file calls
\* run in worker threads at any time.
C8_DecodeCap == Cardinality(DecodesInFlight) <= PyRoundHalf(queue_size) + 1

\* the cap is reached while files are still waiting to be decoded
C8_Witness ==
    /\ Cardinality(DecodesInFlight) = PyRoundHalf(queue_size) + 1
    /\ Cardinality(DecodesInFlight) >= 2
    /\ iter_left # {}

\* C5: loader termination: when every decode returns and the consumer keeps
\* dequeuing, the sentinel is pushed, every producer task finishes and the
\* consumer's iteration ends; no run stops before that.
Terminated ==
    /\ consPc = "ended"
    /\ fetchPc = "done"
    /\ AllLoadsOver(loadPc)
    /\ queue = <<>>
C5_Termination == <>Terminated

\* a load over three candidate files has ended, with a failed decode among them
C5_Witness ==
    /\ Terminated
    /\ Cardinality(files) = 3
    /\ Len(delivered) = 2

\* C9: decode failure policy: a file whose decode fails is never put on the
\* channel nor yielded, no file is decoded twice, and the pipeline goes on: once
\* nothing is left to run every candidate has been decoded, every decoded record
\* has been yielded and the consumer has seen the end of the stream.
C9_DecodeFailurePolicy ==
    /\ \A t \in LoadTasks :
          loadResult[t] \in {"fail", "empty"}
              => loadFile[t] \notin Range(queue) \cup Range(delivered)
    /\ \A f \in DiskFiles : decodeRuns[f] <= 1
    /\ (Quiescent /\ \E t \in LoadTasks : loadResult[t] \in {"fail", "empty"})
          => /\ consPc = "ended"
             /\ \A f \in files : decodeRuns[f] = 1
             /\ \A f \in files : ResultOf(f) = "ok" => f \in Range(delivered)

\* C10: resume idempotence: no file whose path is a line of the progress file
\* loaded at startup becomes a candidate, is decoded or is yielded.
C10_ResumeIdempotence ==
    \A f \in DiskFiles :
        (\E i \in 1..Len(progress) : progress[i] = DoneLine(f))
            => /\ f \notin files
               /\ decodeRuns[f] = 0
               /\ f \notin Range(delivered)


\* ------------------------------------------------ Converter._async_save
WorkerTasks == 1..Len(wPc)
WDev(t) == wInput[t]
WRunning(t) == wStage = "run" /\ wReady # <<>> /\ Head(wReady) = t

\* add_done: the path of the record is appended to the progress file
add_done(log, t) == Append(log, t)

\* mutant: the path is logged when the worker starts, before the write
AddDoneAtStart(pc) == pc = "start"

\* where worker() calls add_done: behind `await save(...)`, under the limit
AddDoneAt(pc) == pc = "encoded"

\* the progress file after the step of worker t that starts at wPc[t]
WorkerLog(t) == IF AddDoneAt(wPc[t]) THEN add_done(doneLog, t) ELSE doneLog

\* the bytes of cube.path of the record of worker t: t bytes of value t, so
\* that the paths differ in content and in length
PathBytes(t) == [i \in 1..t |-> t]

\* the byte of "\n"
LineBreak == 0

\* mutant: the file is opened with mode "w"
WriteLineTruncating(content, t) == PathBytes(t) \o <<LineBreak>>

\* the body of add_done on the bytes of the file: open("a") and one write of
\* f"{cube.path}\n", with no await between them
WriteLine(content, t) == content \o PathBytes(t) \o <<LineBreak>>

\* the bytes of the progress file after the step of worker t that starts at
\* wPc[t]
WorkerFile(t) == IF AddDoneAt(wPc[t]) THEN WriteLine(progressFile, t) ELSE progressFile

\* `async for dc in datacube: tg.create_task(worker(dc))`: the next resolved
\* record comes, whenever upstream yields it, and its worker task is created
AsyncSaveNext ==
    /\ UNCHANGED nonWriterVars
    /\ wStage = "run"
    /\ Len(wPc) < Len(wInput)
    /\ wPc' = Append(wPc, "start")
    /\ wReady' = Append(wReady, Len(wPc) + 1)
    /\ UNCHANGED <<wStage, write_threads, wInput, limit, locks, encodeOrder, doneLog,
               progressFile>>

\* CubeTraces.save, called by the worker under the limit: the julian day, then
\* `async with get_lock(self.cube_id)` and the encode in a thread
SaveBody(t, rdy) ==
    LET d == WDev(t)
        l == get_lock(locks, d)
    IN /\ wReady' = rdy
       /\ IF LockFree(l)
          THEN /\ locks' = [locks EXCEPT ![d] = LockTake(l)]
               /\ wPc' = [wPc EXCEPT ![t] = "encoding"]
               /\ encodeOrder' = Append(encodeOrder, t)
          ELSE /\ locks' = [locks EXCEPT ![d] = LockEnqueue(l, t)]
               /\ wPc' = [wPc EXCEPT ![t] = "lockWait"]
               /\ UNCHANGED encodeOrder

\* worker(): `async with limit`; a new task takes a permit or queues for one, a
\* task woken in acquire() holds the permit; with it, save is called
WorkerEnter(t) ==
    /\ UNCHANGED nonWriterVars
    /\ WRunning(t)
    /\ t \in WorkerTasks
    /\ \/ /\ wPc[t] = "start"
          /\ IF SemLocked(limit)
             THEN /\ limit' = SemEnqueue(limit, t)
                  /\ wPc' = [wPc EXCEPT ![t] = "limitWait"]
                  /\ wReady' = Tail(wReady)
                  /\ UNCHANGED <<locks, encodeOrder>>
             ELSE /\ limit' = SemTake(limit)
                  /\ SaveBody(t, Tail(wReady))
       \/ /\ wPc[t] = "limitWait"
          /\ t \in limit.woken
          /\ LET s == SemResume(limit, t)
             IN /\ limit' = s
                /\ SaveBody(t, Tail(wReady)
                                 \o NewlyWoken([limit EXCEPT !.woken = @ \ {t}], s))
    /\ doneLog' = WorkerLog(t)
    /\ progressFile' = WorkerFile(t)
    /\ UNCHANGED <<wStage, write_threads, wInput>>

\* save(): the task woken in the device lock's acquire() takes the lock and
\* starts the encode
SaveLocked(t) ==
    /\ UNCHANGED nonWriterVars
    /\ WRunning(t)
    /\ t \in WorkerTasks
    /\ wPc[t] = "lockWait"
    /\ t \in locks[WDev(t)].woken
    /\ locks' = [locks EXCEPT ![WDev(t)] = LockResume(@, t)]
    /\ wPc' = [wPc EXCEPT ![t] = "encoding"]
    /\ encodeOrder' = Append(encodeOrder, t)
    /\ wReady' = Tail(wReady)
    /\ doneLog' = WorkerLog(t)
    /\ progressFile' = WorkerFile(t)
    /\ UNCHANGED <<wStage, write_threads, wInput, limit>>

\* pyrocko's save(..., append=True) ends in its thread: the worker task is
\* scheduled
EncodeReturn(t) ==
    /\ UNCHANGED nonWriterVars
    /\ wStage = "run"
    /\ t \in WorkerTasks
    /\ wPc[t] = "encoding"
    /\ wPc' = [wPc EXCEPT ![t] = "encoded"]
    /\ wReady' = Append(wReady, t)
    /\ UNCHANGED <<wStage, write_threads, wInput, limit, locks, encodeOrder, doneLog,
               progressFile>>

\* save() leaves the device lock and returns; worker() logs the path as done
\* and leaves the limit
WorkerExit(t) ==
    /\ UNCHANGED nonWriterVars
    /\ WRunning(t)
    /\ t \in WorkerTasks
    /\ wPc[t] = "encoded"
    /\ LET l == get_lock(locks, WDev(t))
           l2 == LockRelease(l)
           s2 == SemRelease(limit)
       IN /\ locks' = [locks EXCEPT ![WDev(t)] = l2]
          /\ limit' = s2
          /\ wReady' = (Tail(wReady) \o NewlyWoken(l, l2)) \o NewlyWoken(limit, s2)
    /\ wPc' = [wPc EXCEPT ![t] = "finished"]
    /\ doneLog' = WorkerLog(t)
    /\ progressFile' = WorkerFile(t)
    /\ UNCHANGED <<wStage, write_threads, wInput, encodeOrder>>

\* the record sequence is exhausted and the task group has no task left
AsyncSaveDone ==
    /\ UNCHANGED nonWriterVars
    /\ wStage = "run"
    /\ Len(wPc) = Len(wInput)
    /\ \A t \in WorkerTasks : wPc[t] = "finished"
    /\ wStage' = "done"
    /\ UNCHANGED <<write_threads, wInput, wPc, limit, locks, wReady, encodeOrder, doneLog,
               progressFile>>

WriterNext ==
    \/ AsyncSaveNext
    \/ \E t \in WorkerTasks : WorkerEnter(t)
    \/ \E t \in WorkerTasks : SaveLocked(t)
    \/ \E t \in WorkerTasks : EncodeReturn(t)
    \/ \E t \in WorkerTasks : WorkerExit(t)
    \/ AsyncSaveDone

WriterSpec == WriterInit /\ [][WriterNext]_vars

\* the event loop runs what is ready, every encode returns and upstream
\* yields every record of the sequence
WriterFairSpec == WriterSpec /\ WF_vars(WriterNext)

\* ------------------------------------------------------ claims on the writer
Encoding == {t \in WorkerTasks : wPc[t] = "encoding"}
EncodeOrderOf(d) == SelectSeq(encodeOrder, LAMBDA t : WDev(t) = d)

\* C2: per-device mutual exclusion: at most one encode per device id is in
\* progress at any time.
C2_DeviceMutex ==
    \A d \in Devices : Cardinality({t \in Encoding : WDev(t) = d}) <= 1

\* a record waits for the lock of its device while another one is encoded
C2_Witness ==
    \E t, u \in WorkerTasks :
        /\ WDev(t) = WDev(u)
        /\ wPc[t] = "encoding"
        /\ wPc[u] = "lockWait"

\* C3: per-device write order: the encodes of the records of one device are
\* started in the order the writer dequeued the records.
C3_DeviceOrder ==
    \A d \in Devices :
        \A i, j \in 1..Len(EncodeOrderOf(d)) :
            i < j => EncodeOrderOf(d)[i] < EncodeOrderOf(d)[j]

\* three records of one device were encoded, having queued for the limit and
\* for the device lock
C3_Witness ==
    /\ Len(wInput) >= 3
    /\ \A t \in 1..3 : WDev(t) = "A"
    /\ Len(EncodeOrderOf("A")) >= 3

\* C6: global write cap: at most write_threads encodes are in progress.
C6_WriteCap == Cardinality(Encoding) <= write_threads

\* the cap is reached while another record waits for a permit
C6_Witness ==
    /\ write_threads >= 2
    /\ Cardinality(Encoding) = write_threads
    /\ \E t \in WorkerTasks : wPc[t] = "limitWait"

\* C7: while fewer than write_threads encodes are in progress, a submitted
\* record whose device has no encode in progress (nor any record holding a
\* permit) is not kept waiting for a permit that only the end of another
\* device's write can free.
C7_ParallelAcrossDevices ==
    \A t \in WorkerTasks :
        ~ /\ wPc[t] = "limitWait"
          /\ t \notin limit.woken
          /\ Cardinality({u \in WorkerTasks : wPc[u] \in {"encoding", "encoded"}})
                < write_threads
          /\ \A u \in WorkerTasks :
                WDev(u) = WDev(t) => wPc[u] \in {"start", "limitWait", "finished"}

\* C11: the completion log is written only after the write: every path in the
\* log is that of a record whose encode was started and has returned, logged
\* once; the log holds no record whose write has not finished.
C11_LogAfterWrite ==
    /\ \A i \in 1..Len(doneLog) :
          /\ doneLog[i] \in Range(encodeOrder)
          /\ wPc[doneLog[i]] = "finished"
    /\ \A i, j \in 1..Len(doneLog) : doneLog[i] = doneLog[j] => i = j

\* one record is logged as done while the write of another goes on and a third
\* waits
C11_Witness ==
    /\ Len(doneLog) = 1
    /\ \E t \in WorkerTasks : wPc[t] = "encoding"
    /\ \E t \in WorkerTasks : wPc[t] \in {"limitWait", "lockWait"}


\* ------------------------------------- LoaderDataCube.iter_datacube
OldTasks == 1..Len(oTasks)
ORunning(t) == oStage = "run" /\ oReady # <<>> /\ Head(oReady) = t
FetchTaskOf(n) == [kind |-> "fetch", pc |-> "start", arg |-> n, parent |-> 0]
WorkerTaskOf(f, parent) == [kind |-> "worker", pc |-> "start", arg |-> f, parent |-> parent]
Min(a, b) == IF a <= b THEN a ELSE b

\* a fetch() whose workers are all over leaves its task group and ends
OldSettle(ts) ==
    [i \in 1..Len(ts) |->
        IF ts[i].kind = "fetch" /\ ts[i].pc = "join"
           /\ \A j \in 1..Len(ts) : ts[j].parent = i => ts[j].pc = "finished"
        THEN [ts[i] EXCEPT !.pc = "finished"]
        ELSE ts[i]]

\* put_nowait's _wakeup_next(self._getters)
OldWakeGetter(rdy) == IF oConsPc = "getWait" THEN Append(rdy, ConsumerTask) ELSE rdy
OldGetterPc == IF oConsPc = "getWait" THEN "get" ELSE oConsPc

\* iter_datacube up to its first get(): fetch(queue.maxsize) and fetch(1) are
\* created, the queue is empty and the body waits
OldIterStart ==
    /\ UNCHANGED nonOldVars
    /\ oStage = "init"
    /\ oStage' = "run"
    /\ oTasks' = <<FetchTaskOf(OldQueueMaxsize), FetchTaskOf(1)>>
    /\ oReady' = <<1, 2>>
    /\ oConsPc' = "getWait"
    /\ UNCHANGED <<oFiles, oTaken, oQueue, oPutters, oDelivered>>

\* fetch(n_files): a worker task for each of the next n_files files; when the
\* iterator is exhausted first, `await queue.put(None)` and break; then the
\* task group waits for the workers
OldFetch(t) ==
    /\ UNCHANGED nonOldVars
    /\ ORunning(t)
    /\ t \in OldTasks
    /\ oTasks[t].kind = "fetch"
    /\ oTasks[t].pc = "start"
    /\ LET k == Min(oTasks[t].arg, oFiles - oTaken)
           workers == [i \in 1..k |-> WorkerTaskOf(oTaken + i, t)]
           ids == [i \in 1..k |-> Len(oTasks) + i]
           exhausted == k < oTasks[t].arg
           blocked == exhausted /\ QueueFull(oQueue, OldQueueMaxsize)
           pc == IF blocked THEN "putWait" ELSE "join"
       IN /\ oTaken' = oTaken + k
          /\ oTasks' = OldSettle([oTasks EXCEPT ![t].pc = pc] \o workers)
          /\ IF exhausted /\ ~blocked
             THEN /\ oQueue' = Append(oQueue, 0)
                  /\ oReady' = OldWakeGetter(Tail(oReady) \o ids)
                  /\ oConsPc' = OldGetterPc
                  /\ UNCHANGED oPutters
             ELSE /\ oReady' = Tail(oReady) \o ids
                  /\ oPutters' = IF blocked THEN Append(oPutters, t) ELSE oPutters
                  /\ UNCHANGED <<oQueue, oConsPc>>
    /\ UNCHANGED <<oStage, oFiles, oDelivered>>

\* worker(file): DatacubeTraces.from_file is given to a thread
OldWorker(t) ==
    /\ UNCHANGED nonOldVars
    /\ ORunning(t)
    /\ t \in OldTasks
    /\ oTasks[t].kind = "worker"
    /\ oTasks[t].pc = "start"
    /\ oTasks' = [oTasks EXCEPT ![t].pc = "decoding"]
    /\ oReady' = Tail(oReady)
    /\ UNCHANGED <<oStage, oFiles, oTaken, oQueue, oPutters, oConsPc, oDelivered>>

\* from_file ends in its thread: the worker task is scheduled
OldDecodeReturn(t) ==
    /\ UNCHANGED nonOldVars
    /\ oStage = "run"
    /\ t \in OldTasks
    /\ oTasks[t].pc = "decoding"
    /\ oTasks' = [oTasks EXCEPT ![t].pc = "decoded"]
    /\ oReady' = Append(oReady, t)
    /\ UNCHANGED <<oStage, oFiles, oTaken, oQueue, oPutters, oConsPc, oDelivered>>

\* queue.put() of a worker with its record, or of a task woken in put(): wait
\* while the queue is full, else put_nowait
OldPut(t) ==
    /\ UNCHANGED nonOldVars
    /\ ORunning(t)
    /\ t \in OldTasks
    /\ oTasks[t].pc \in {"decoded", "putRetry"}
    /\ IF QueueFull(oQueue, OldQueueMaxsize)
       THEN /\ oPutters' = Append(oPutters, t)
            /\ oTasks' = [oTasks EXCEPT ![t].pc = "putWait"]
            /\ oReady' = Tail(oReady)
            /\ UNCHANGED <<oQueue, oConsPc>>
       ELSE /\ oQueue' = Append(oQueue, IF oTasks[t].kind = "worker" THEN oTasks[t].arg ELSE 0)
            /\ oTasks' = OldSettle([oTasks EXCEPT ![t].pc =
                                      IF oTasks[t].kind = "worker" THEN "finished" ELSE "join"])
            /\ oReady' = OldWakeGetter(Tail(oReady))
            /\ oConsPc' = OldGetterPc
            /\ UNCHANGED oPutters
    /\ UNCHANGED <<oStage, oFiles, oTaken, oDelivered>>

\* get_nowait and what follows in the body: the first waiting putter is woken;
\* None breaks the loop and the task group waits for the fetch tasks, a record
\* is yielded
OldTake(rdy) ==
    /\ oQueue' = Tail(oQueue)
    /\ IF oPutters # <<>>
       THEN /\ oPutters' = Tail(oPutters)
            /\ oReady' = Append(rdy, Head(oPutters))
       ELSE /\ oReady' = rdy
            /\ UNCHANGED oPutters
    /\ IF Head(oQueue) = 0
       THEN /\ oConsPc' = "exiting"
            /\ UNCHANGED oDelivered
       ELSE /\ oConsPc' = "busy"
            /\ oDelivered' = Append(oDelivered, Head(oQueue))

WakePutter(ts) ==
    IF oPutters # <<>> THEN [ts EXCEPT ![Head(oPutters)].pc = "putRetry"] ELSE ts

\* the body woken in `await queue.get()`
OldConsumerGet ==
    /\ UNCHANGED nonOldVars
    /\ ORunning(ConsumerTask)
    /\ oConsPc = "get"
    /\ IF oQueue = <<>>
       THEN /\ oConsPc' = "getWait"
            /\ oReady' = Tail(oReady)
            /\ UNCHANGED <<oQueue, oPutters, oTasks, oDelivered>>
       ELSE /\ OldTake(Tail(oReady))
            /\ oTasks' = WakePutter(oTasks)
    /\ UNCHANGED <<oStage, oFiles, oTaken>>

\* the caller asks for the next record, after however long it took
OldConsumerNext ==
    /\ UNCHANGED nonOldVars
    /\ oStage = "run"
    /\ oConsPc = "busy"
    /\ oConsPc' = "loop"
    /\ oReady' = Append(oReady, ConsumerTask)
    /\ UNCHANGED <<oStage, oFiles, oTaken, oQueue, oPutters, oTasks, oDelivered>>

\* the body after its yield: task_done(), the next round of the loop creates
\* fetch(1), then get()
OldConsumerLoop ==
    /\ UNCHANGED nonOldVars
    /\ ORunning(ConsumerTask)
    /\ oConsPc = "loop"
    /\ LET ts == Append(oTasks, FetchTaskOf(1))
           rdy == Append(Tail(oReady), Len(ts))
       IN IF oQueue = <<>>
          THEN /\ oConsPc' = "getWait"
               /\ oReady' = rdy
               /\ oTasks' = ts
               /\ UNCHANGED <<oQueue, oPutters, oDelivered>>
          ELSE /\ OldTake(rdy)
               /\ oTasks' = WakePutter(ts)
    /\ UNCHANGED <<oStage, oFiles, oTaken>>

\* after the break no task of the task group is left: iter_datacube ends
OldClose ==
    /\ UNCHANGED nonOldVars
    /\ oStage = "run"
    /\ oConsPc = "exiting"
    /\ \A t \in OldTasks : oTasks[t].pc = "finished"
    /\ oConsPc' = "closed"
    /\ UNCHANGED <<oStage, oFiles, oTaken, oQueue, oPutters, oTasks, oReady, oDelivered>>

OldNext ==
    \/ OldIterStart
    \/ \E t \in OldTasks : OldFetch(t)
    \/ \E t \in OldTasks : OldWorker(t)
    \/ \E t \in OldTasks : OldDecodeReturn(t)
    \/ \E t \in OldTasks : OldPut(t)
    \/ OldConsumerGet
    \/ OldConsumerNext
    \/ OldConsumerLoop
    \/ OldClose

OldSpec == OldInit /\ [][OldNext]_vars

\* every decode returns, the event loop runs what is ready and the caller keeps
\* asking for the next record
OldFairSpec == OldSpec /\ WF_vars(OldNext)

OldTerminated ==
    /\ oConsPc = "closed"
    /\ oReady = <<>>
    /\ oPutters = <<>>

\* ------------------------------------------------- claims on both loaders
\* C4: delivery exactly once: what the consumer has dequeued when it sees the
\* end of the stream holds each decoded candidate file exactly once; the
\* sentinel is not enqueued before every decoded record is, and no file is
\* decoded twice.
C4_DeliveryExactlyOnce ==
    /\ oConsPc \in {"exiting", "closed"}
          => \A f \in 1..oFiles :
                Cardinality({i \in 1..Len(oDelivered) : oDelivered[i] = f}) = 1
    /\ 0 \in Range(oQueue)
          => \A t \in OldTasks : oTasks[t].kind = "worker" => oTasks[t].pc = "finished"
    /\ Cardinality({t \in OldTasks : oTasks[t].kind = "worker"}) = oTaken

\* the same for DataCubeLoader
C4_DeliveryExactlyOnceLoader ==
    /\ consPc = "ended"
          => \A f \in files :
                ResultOf(f) = "ok"
                    <=> Cardinality({i \in 1..Len(delivered) : delivered[i] = f}) = 1
    /\ 0 \in Range(queue) => AllLoadsOver(loadPc)
    /\ \A f \in DiskFiles : decodeRuns[f] <= 1


\* ---------------------------------------------------------------- CubeSites
Max(a, b) == IF a >= b THEN a ELSE b
SetMin(S) == CHOOSE x \in S : \A y \in S : x <= y

\* what from_datacube_trace returns for a record without a usable fix
None == [cube_id |-> "", pos |-> NoFix, start_time |-> 0, end_time |-> 0, station |-> 0]

\* mutant: the test of the coordinates is lost, every record gives a site
from_datacube_trace_unchecked(c) ==
    [cube_id |-> c.cube_id, pos |-> c.pos, start_time |-> c.start_time,
     end_time |-> c.end_time, station |-> 0]

\* CubeSite.from_datacube_trace; station is the index of the Station in the
\* mapper's _features, 0 for None. NoFix stands for every fix the test
\* `isnan(lat) or isnan(lon) or lat == 0.0 or lon == 0.0` rejects
from_datacube_trace(c) ==
    IF c.pos = NoFix
    THEN None
    ELSE [cube_id |-> c.cube_id, pos |-> c.pos, start_time |-> c.start_time,
          end_time |-> c.end_time, station |-> 0]

\* min(s[1..n]) of Python: the first item is kept until a later one is less
\* than the one kept, so a NaN in front is the result
RECURSIVE PyMin(_, _)
PyMin(s, n) ==
    IF n = 1 THEN s[1]
    ELSE LET kept == PyMin(s, n - 1)
         IN IF FloatLess(s[n], kept) THEN s[n] ELSE kept

\* StationMapper.get_station: min() of an empty list raises ValueError
get_station_raises(features) == features = <<>>

\* StationMapper.get_station, the index of the nearest station or 0 for None
get_station(features, site) ==
    LET distances == [i \in 1..Len(features) |->
                         surface_distance_to(features[i].pos, site.pos)]
        min_distance == PyMin(distances, Len(distances))
    IN IF FloatGreater(min_distance, distance_threshold)
       THEN 0
       ELSE SetMin({i \in 1..Len(features) : distances[i] = min_distance})

\* CubeSite.station_name
station_name(conf, site) == IF site.station = 0 THEN "" ELSE conf.features[site.station].name

\* mutant: only the site added last is compared with the new one
CloseSitesLast(existing_sites, site) ==
    {i \in 1..Len(existing_sites) :
        i = Len(existing_sites) /\ is_close(existing_sites[i].pos, site.pos)}

\* the existing sites add_site finds close to the new one
CloseSites(existing_sites, site) ==
    {i \in 1..Len(existing_sites) : is_close(existing_sites[i].pos, site.pos)}

\* mutant: the merged entry is rebuilt from the new site, which has no station
MergeIntoRebuilt(existing_site, site) ==
    [site EXCEPT !.start_time = Min(site.start_time, existing_site.start_time),
                 !.end_time = Max(site.end_time, existing_site.end_time)]

\* the merge of add_site: the existing site takes the earlier start and the
\* later end, nothing else of it is assigned
MergeInto(existing_site, site) ==
    [existing_site EXCEPT !.start_time = Min(site.start_time, @),
                          !.end_time = Max(site.end_time, @)]

\* mutant: the merge branch returns without save()
MergeReturnsUnsaved == FALSE

\* the merge branch of add_site calls save() before it returns
MergeSaves == TRUE

\* CubeSites.save with a dump path: the file holds the sites given
save(ss) == ss

\* CubeSites.add_site: the sites and the statistics after it, whether it
\* raised and whether it called save(); a cube id without sites has the empty
\* list
add_site(ss, st, conf, site) ==
    LET existing_sites == ss[site.cube_id]
        close == CloseSites(existing_sites, site)
    IN IF close # {}
       THEN LET i == SetMin(close)
            IN [sites |-> [ss EXCEPT ![site.cube_id][i] = MergeInto(@, site)],
                stats |-> st, raised |-> FALSE, saved |-> MergeSaves]
       ELSE IF conf.mapper /\ get_station_raises(conf.features)
       THEN [sites |-> ss, stats |-> st, raised |-> TRUE, saved |-> FALSE]
       ELSE LET station == IF conf.mapper THEN get_station(conf.features, site) ELSE 0
            IN [sites |-> [ss EXCEPT ![site.cube_id] =
                                         Append(@, [site EXCEPT !.station = station])],
                stats |-> [st EXCEPT !.n_sites = @ + 1,
                                     !.n_stations = IF station # 0 THEN @ + 1 ELSE @],
                raised |-> FALSE, saved |-> TRUE]

\* mutant: reverse=True is lost, the sites come by ascending start time
SortedDescUnreversed(list) ==
    [r \in 1..Len(list) |->
        CHOOSE k \in 1..Len(list) :
            r = 1 + Cardinality({j \in 1..Len(list) :
                        \/ list[j].start_time < list[k].start_time
                        \/ list[j].start_time = list[k].start_time /\ j < k})]

\* sorted(sites, key=start_time, reverse=True): the indices of the list by
\* descending start time, equal start times in the order of the list
SortedDesc(list) ==
    [r \in 1..Len(list) |->
        CHOOSE k \in 1..Len(list) :
            r = 1 + Cardinality({j \in 1..Len(list) :
                        \/ list[j].start_time > list[k].start_time
                        \/ list[j].start_time = list[k].start_time /\ j < k})]

\* sorted(sites, key=start_time): by ascending start time
SortedAsc(list) ==
    [r \in 1..Len(list) |->
        CHOOSE k \in 1..Len(list) :
            r = 1 + Cardinality({j \in 1..Len(list) :
                        \/ list[j].start_time < list[k].start_time
                        \/ list[j].start_time = list[k].start_time /\ j < k})]

\* CubeSites.get_site: the index of the first site, in descending start time,
\* with start_time <= datacube.start_time <= end_time; 0 for None
get_site(ss, c) ==
    LET list == ss[c.cube_id]
        order == SortedDesc(list)
        hits == {r \in 1..Len(list) :
                    /\ list[order[r]].start_time <= c.start_time
                    /\ c.start_time <= list[order[r]].end_time}
    IN IF hits = {} THEN 0 ELSE order[SetMin(hits)]

\* `if site.end_time`: a datetime is true whatever its value
DatetimeTruthy(t) == TRUE

\* CubeSites.fill_endtimes
fill_endtimes(ss, end_time) ==
    [d \in Devices |->
        LET sorted_sites == SortedAsc(ss[d])
        IN [k \in 1..Len(ss[d]) |->
               LET i_site == CHOOSE r \in 1..Len(ss[d]) : sorted_sites[r] = k
               IN IF DatetimeTruthy(ss[d][k].end_time)
                  THEN ss[d][k]
                  ELSE IF i_site + 1 <= Len(ss[d])
                  THEN [ss[d][k] EXCEPT
                           !.end_time = ss[d][sorted_sites[i_site + 1]].start_time]
                  ELSE [ss[d][k] EXCEPT !.end_time = end_time]]]

\* mutant: a record without a site is skipped like a blacklisted one
SkippedOrUnmatched(conf, list, found) ==
    \/ found = 0
    \/ /\ list[found].station # 0
       /\ station_name(conf, list[found]) \in conf.station_blacklist

\* the `continue` of process_datacubes: the record has a site, the site has a
\* station and its name is in station_blacklist
Skipped(conf, list, found) ==
    /\ found # 0
    /\ list[found].station # 0
    /\ station_name(conf, list[found]) \in conf.station_blacklist

\* mutant: the record come last is handed on ahead of those before it
YieldCubeFirst(out, cube) == <<cube>> \o out

\* `yield cube`: the consumer of the generator gets the record next
YieldCube(out, cube) == Append(out, cube)

\* one round of the loop of process_datacubes over the next record of `cubes`
process_datacubes(c) ==
    /\ UNCHANGED nonSitesVars
    /\ sStage = "run"
    /\ Len(sFed) < MaxCubes
    /\ sFed' = Append(sFed, c)
    /\ LET new_site == from_datacube_trace(c)
           added == IF new_site # None
                    THEN add_site(sites, sStats, sConf, new_site)
                    ELSE [sites |-> sites, stats |-> sStats, raised |-> FALSE,
                          saved |-> FALSE]
           found == get_site(added.sites, c)
           site == added.sites[c.cube_id][found]
           yielded == [cube |-> Len(sFed) + 1,
                       nsl |-> IF found # 0
                               THEN <<"DC", station_name(sConf, site), "">>
                               ELSE <<>>,
                       channels |-> IF found # 0 /\ site.station # 0
                                    THEN "mapped" ELSE "raw"]
       IN IF added.raised
          THEN /\ sStage' = "failed"
               /\ sLookups' = Append(sLookups, -1)
               /\ persisted' = save(sites)
               /\ UNCHANGED <<sites, sStats, no_site_info, sOut>>
          ELSE /\ sites' = added.sites
               /\ sLookups' = Append(sLookups, found)
               /\ sStats' = IF found = 0
                            THEN [added.stats EXCEPT !.n_no_site = @ + 1]
                            ELSE added.stats
               /\ no_site_info' = IF found = 0
                                  THEN no_site_info \cup {c.cube_id}
                                  ELSE no_site_info
               /\ sOut' = IF Skipped(sConf, added.sites[c.cube_id], found)
                          THEN sOut
                          ELSE YieldCube(sOut, yielded)
               /\ persisted' = IF added.saved THEN save(added.sites) ELSE persisted
               /\ UNCHANGED sStage
    /\ UNCHANGED sConf

\* `cubes` is exhausted: fill_endtimes()
ProcessDatacubesEnd ==
    /\ UNCHANGED nonSitesVars
    /\ sStage = "run"
    /\ sStage' = "filled"
    /\ sites' = fill_endtimes(sites, DATETIME_MAX)
    /\ persisted' = save(sites')
    /\ UNCHANGED <<sConf, sStats, no_site_info, sFed, sLookups, sOut>>

SitesNext ==
    \/ \E c \in CubeRecords : process_datacubes(c)
    \/ ProcessDatacubesEnd

SitesSpec == SitesInit /\ [][SitesNext]_vars


\* ------------------------------------------------------ claims on CubeSites
\* the sites add_site builds from an empty catalog when fed the records of a
\* sequence in its order
RECURSIVE AddAll(_, _)
AddAll(cubes, conf) ==
    IF cubes = <<>>
    THEN [d \in Devices |-> <<>>]
    ELSE LET before == AddAll(SubSeq(cubes, 1, Len(cubes) - 1), conf)
             new_site == from_datacube_trace(cubes[Len(cubes)])
         IN IF new_site = None
            THEN before
            ELSE add_site(before, sStats, conf, new_site).sites

Perms(n) == {p \in [1..n -> 1..n] : \A i, j \in 1..n : p[i] = p[j] => i = j}

\* for each cube the number of its sites and their time ranges
SiteSummary(ss) ==
    [d \in Devices |->
        [count |-> Len(ss[d]),
         ranges |-> {<<ss[d][i].start_time, ss[d][i].end_time>> : i \in 1..Len(ss[d])}]]

\* C12: merge commutativity: fed to add_site in any other order, the records
\* the resolver was fed give the same sites: as many per cube, with the same
\* merged time ranges.
C12_MergeCommutativity ==
    \A p \in Perms(Len(sFed)) :
        SiteSummary(AddAll([i \in 1..Len(sFed) |-> sFed[p[i]]], sConf))
            = SiteSummary(AddAll(sFed, sConf))


Overlap(a, b) == a.start_time < b.end_time /\ b.start_time < a.end_time

\* C14: non-overlap after back-fill: once the input is exhausted and
\* fill_endtimes has run, no cube has two sites whose time ranges overlap.
C14_NonOverlapAfterBackfill ==
    sStage = "filled"
        => \A d \in Devices :
              \A i, j \in 1..Len(sites[d]) : i # j => ~Overlap(sites[d][i], sites[d][j])

\* C15: time-range back-fill: after fill_endtimes the end time of each site of
\* a cube is the start time of the cube's next site by start time, and that of
\* the last one is the open-ended sentinel.
C15_TimeRangeBackfill ==
    sStage = "filled"
        => \A d \in Devices :
              \A k \in 1..Len(sites[d]) :
                 LET order == SortedAsc(sites[d])
                     r == CHOOSE r \in 1..Len(sites[d]) : order[r] = k
                 IN sites[d][k].end_time =
                        IF r < Len(sites[d])
                        THEN sites[d][order[r + 1]].start_time
                        ELSE DATETIME_MAX


\* the record taken by the round of process_datacubes that a step is
FedNow == sFed'[Len(sFed')]
\* a step is a round of process_datacubes over a record with a fix
LocatedRound == sStage = "run" /\ Len(sFed') = Len(sFed) + 1 /\ FedNow.pos # NoFix
\* the distances from the record's fix to the sites its cube has
DistancesNow ==
    {surface_distance_to(sites[FedNow.cube_id][i].pos, FedNow.pos) :
        i \in 1..Len(sites[FedNow.cube_id])}

\* C16: threshold boundary: a site exactly 25 m from the nearest site of its
\* cube is not close to it and is kept as a site of its own; a site less than
\* 25 m from a site of its cube is merged, the number of sites staying the same.
C16_ThresholdBoundary ==
    [][LocatedRound /\ DistancesNow # {}
          => /\ SetMin(DistancesNow) = ProximityThreshold
                  => /\ Len(sites'[FedNow.cube_id]) = Len(sites[FedNow.cube_id]) + 1
                     /\ sites'[FedNow.cube_id][Len(sites[FedNow.cube_id]) + 1].pos
                            = FedNow.pos
             /\ SetMin(DistancesNow) < ProximityThreshold
                  => Len(sites'[FedNow.cube_id]) = Len(sites[FedNow.cube_id])]_vars

\* two records of one cube exactly 25 m apart were fed and are two sites
C16_Witness ==
    /\ Len(sFed) = 2
    /\ sFed[1].cube_id = "A" /\ sFed[2].cube_id = "A"
    /\ sFed[1].pos = 0 /\ sFed[2].pos = 25
    /\ Len(sites["A"]) = 2


\* the sites of the record's cube before and after the round
SitesBefore == sites[FedNow.cube_id]
SitesAfter == sites'[FedNow.cube_id]

\* the effect C17 describes, of add_site on the sites of the record's cube
AddOrMergeEffect ==
    IF \E i \in 1..Len(SitesBefore) :
          surface_distance_to(SitesBefore[i].pos, FedNow.pos) < ProximityThreshold
    THEN /\ Len(SitesAfter) = Len(SitesBefore)
         /\ \E i \in 1..Len(SitesBefore) :
               /\ surface_distance_to(SitesBefore[i].pos, FedNow.pos) < ProximityThreshold
               /\ SitesAfter[i] =
                     [SitesBefore[i] EXCEPT
                         !.start_time = Min(FedNow.start_time, SitesBefore[i].start_time),
                         !.end_time = Max(FedNow.end_time, SitesBefore[i].end_time)]
               /\ \A j \in 1..Len(SitesBefore) : j # i => SitesAfter[j] = SitesBefore[j]
    ELSE /\ Len(SitesAfter) = Len(SitesBefore) + 1
         /\ SubSeq(SitesAfter, 1, Len(SitesBefore)) = SitesBefore
         /\ SitesAfter[Len(SitesAfter)].pos = FedNow.pos
         /\ SitesAfter[Len(SitesAfter)].start_time = FedNow.start_time
         /\ SitesAfter[Len(SitesAfter)].end_time = FedNow.end_time

\* C17: add-or-merge effect: a site within the proximity threshold of an
\* existing site of its cube leaves the number of sites unchanged and widens
\* that site to the minimum of the starts and the maximum of the ends; any
\* other site is appended, one site more.
C17_AddOrMerge == [][LocatedRound => AddOrMergeEffect]_vars

\* the same where the mapper, when there is one, has stations
C17_AddOrMergeWithStations ==
    [][LocatedRound /\ ~(sConf.mapper /\ sConf.features = <<>>) => AddOrMergeEffect]_vars


\* the record of the last round, what get_site gave for it, and the sites of
\* its cube that cover the record's start time
LastCube == sFed[Len(sFed)]
LastLookup == sLookups[Len(sLookups)]
LookedUp == sStage = "run" /\ sFed # <<>> /\ LastLookup >= 0
Covering ==
    {i \in 1..Len(sites[LastCube.cube_id]) :
        /\ sites[LastCube.cube_id][i].start_time <= LastCube.start_time
        /\ sites[LastCube.cube_id][i].end_time >= LastCube.start_time}

\* C18: site lookup: get_site gives, among the sites of the record's cube that
\* start not after the record's start and end not before it, one with the
\* latest start time, and None only when there is no such site.
C18_SiteLookup ==
    LookedUp
        => /\ LastLookup = 0 <=> Covering = {}
           /\ LastLookup # 0
                 => /\ LastLookup \in Covering
                    /\ \A j \in Covering :
                          sites[LastCube.cube_id][j].start_time
                              <= sites[LastCube.cube_id][LastLookup].start_time

\* two sites cover the record's start and the later one, second in the list,
\* was selected
C18_Witness ==
    /\ LookedUp
    /\ Cardinality(Covering) = 2
    /\ LastLookup = 2
    /\ sites[LastCube.cube_id][1].start_time < sites[LastCube.cube_id][2].start_time


\* the rounds in which get_site found no site
Unmatched == {k \in 1..Len(sLookups) : sLookups[k] = 0}

\* C19: an unmatched record passes through: n_no_site counts one for each
\* record get_site found no site for, and each of them was yielded once, with
\* the network, station, location and channel codes it came with.
C19_UnmatchedPassesThrough ==
    /\ sStats.n_no_site = Cardinality(Unmatched)
    /\ \A k \in Unmatched :
          /\ Cardinality({i \in 1..Len(sOut) : sOut[i].cube = k}) = 1
          /\ \A i \in 1..Len(sOut) :
                sOut[i].cube = k => sOut[i].nsl = <<>> /\ sOut[i].channels = "raw"

\* a record without a fix found no site although its cube has one, and went on
C19_Witness ==
    /\ LookedUp
    /\ LastLookup = 0
    /\ sites[LastCube.cube_id] # <<>>
    /\ sOut # <<>>
    /\ sOut[Len(sOut)].cube = Len(sFed)
    /\ sStats.n_no_site = 1


\* the site get_site selected in round k is matched to a blacklisted station
Blacklisted(k) ==
    /\ sLookups[k] > 0
    /\ sites[sFed[k].cube_id][sLookups[k]].station # 0
    /\ station_name(sConf, sites[sFed[k].cube_id][sLookups[k]])
           \in sConf.station_blacklist
Yielded(k) == \E i \in 1..Len(sOut) : sOut[i].cube = k

\* C20: blacklist drop: process_datacubes leaves a record out of its output if
\* and only if the site selected for it is matched to a station whose name is
\* in station_blacklist; every other record it took is yielded.
C20_BlacklistDrop == \A k \in 1..Len(sFed) : ~Yielded(k) <=> Blacklisted(k)

\* the same where the mapper, when there is one, has stations
C20_BlacklistDropWithStations ==
    ~(sConf.mapper /\ sConf.features = <<>>) => C20_BlacklistDrop

\* ------------------------------------------------------------------ C21
\* the round of process_datacubes fed a record without a usable fix
UnlocatedRound == sStage = "run" /\ Len(sFed') = Len(sFed) + 1 /\ FedNow.pos = NoFix

\* C21: a record whose fix is NaN or zero creates no Site and changes no
\* Site (the map from device to Sites is the same after the round), the loop
\* goes on to the next record, and get_site is still run for the record
\* against the Sites known before it: its result is what the round records,
\* a record without a covering Site is counted and its device noted.
C21_InvalidFix ==
    [][UnlocatedRound =>
          /\ sites' = sites
          /\ sStage' = "run"
          /\ sLookups' = Append(sLookups, get_site(sites, FedNow))
          /\ get_site(sites, FedNow) = 0
                => /\ sStats' = [sStats EXCEPT !.n_no_site = @ + 1]
                   /\ no_site_info' = no_site_info \cup {FedNow.cube_id}
          /\ get_site(sites, FedNow) # 0
                => /\ sStats' = sStats
                   /\ no_site_info' = no_site_info]_vars

\* a record without a fix was looked up and found a Site of its device, with
\* the run still going
C21_Witness ==
    /\ sStage = "run"
    /\ sFed # <<>>
    /\ LastCube.pos = NoFix
    /\ LastLookup > 0
    /\ sites[LastCube.cube_id] # <<>>

\* ------------------------------------------------------------------ C22
\* C22: a Site whose Station reference is set keeps that Station through every
\* later step: the round of process_datacubes (add_site, merging into that
\* Site or adding another one, then get_site) and the fill_endtimes that
\* ends the run leave the Site in its list with the same Station.
C22_StationKept ==
    [][\A d \in Devices : \A k \in 1..Len(sites[d]) :
          sites[d][k].station # 0
              => /\ k <= Len(sites'[d])
                 /\ sites'[d][k].station = sites[d][k].station]_vars

\* the run is over and a Site with a Station spans more than one record:
\* later records were merged into it after its Station was set
C22_Witness ==
    /\ sStage = "filled"
    /\ \E d \in Devices : \E k \in 1..Len(sites[d]) :
          /\ sites[d][k].station # 0
          /\ sites[d][k].end_time - sites[d][k].start_time > 1

\* ------------------------------------------------------------ StationMapper
\* `not properties.get(key)`: None and the empty string
Falsy(v) == v \in {Missing, ""}

\* one round of the loop of check_geopackage over feature f with `result` so
\* far: the result after it, or "raised" when geometry is None and
\* geometry["coordinates"] is evaluated
CheckFeature(f, result) ==
    IF f.status = "planned" THEN result
    ELSE IF ~f.has_geometry THEN "raised"
    ELSE IF /\ ~Falsy(f.station_name)
            /\ ~Falsy(f.seismic_sensor)
            /\ f.pos # NaN
            /\ f.elevation # 0
    THEN result
    ELSE "False"

\* check_geopackage over the first n features of the file
RECURSIVE CheckUpTo(_, _)
CheckUpTo(file, n) ==
    IF n = 0 THEN "True"
    ELSE LET result == CheckUpTo(file, n - 1)
         IN IF result = "raised" THEN "raised" ELSE CheckFeature(file[n], result)

\* check_geopackage: "True", "False" or "raised"
check_geopackage(file) == CheckUpTo(file, Len(file))

\* Station.from_feature raises: no geometry to index, or None for a str field
from_feature_raises(f) ==
    \/ ~f.has_geometry
    \/ f.station_name = Missing
    \/ f.seismic_sensor = Missing

\* Station.from_feature
from_feature(f) == [name |-> f.station_name, pos |-> f.pos,
                    seismic_sensor |-> f.seismic_sensor]

\* StationMapper.load_geopackage over the first n features: the stations
\* appended and whether from_feature raised
RECURSIVE LoadUpTo(_, _)
LoadUpTo(file, n) ==
    IF n = 0 THEN [features |-> <<>>, raised |-> FALSE]
    ELSE LET before == LoadUpTo(file, n - 1)
         IN IF before.raised THEN before
            ELSE IF from_feature_raises(file[n])
            THEN [before EXCEPT !.raised = TRUE]
            ELSE [before EXCEPT !.features = Append(@, from_feature(file[n]))]

load_geopackage(file) == LoadUpTo(file, Len(file))

\* prepare() goes on to load_geopackage unless check_geopackage raised; what
\* check_geopackage returned is not looked at
PrepareStops(verdict) == verdict = "raised"

\* StationMapper.prepare
MapperPrepare ==
    /\ UNCHANGED nonMapperVars
    /\ mStage = "new"
    /\ LET verdict == check_geopackage(geopackage)
           loaded == load_geopackage(geopackage)
       IN /\ mVerdict' = verdict
          /\ IF PrepareStops(verdict)
             THEN /\ mStage' = "failed"
                  /\ UNCHANGED mFeatures
             ELSE /\ mFeatures' = loaded.features
                  /\ mStage' = IF loaded.raised THEN "failed" ELSE "ready"
    /\ UNCHANGED <<geopackage, overwrites, mOut>>

\* StationMapper.get_station for a site at position p
MapperGetStation(p) ==
    /\ UNCHANGED nonMapperVars
    /\ mStage = "ready"
    /\ mOut' = IF get_station_raises(mFeatures)
               THEN [op |-> "get_station", site |-> p, raised |-> TRUE, result |-> 0]
               ELSE [op |-> "get_station", site |-> p, raised |-> FALSE,
                     result |-> get_station(mFeatures, [pos |-> p])]
    /\ UNCHANGED <<mStage, geopackage, overwrites, mVerdict, mFeatures>>

\* StationMapper.channel_map; a channel code is the sequence of its characters
channel_map ==
    [sensor \in {"4.5hz", "mark", "bb"} |->
        LET band == CASE sensor = "4.5hz" -> <<"E", "P">>
                      [] sensor = "mark" -> <<"E", "H">>
                      [] sensor = "bb" -> <<"H", "H">>
        IN [raw \in {"p0", "p1", "p2"} |->
               band \o CASE raw = "p0" -> <<"Z">>
                         [] raw = "p1" -> <<"N">>
                         [] raw = "p2" -> <<"E">>]]

\* str.endswith for one character and out_channel[:-1]
EndsWith(str, ch) == Len(str) > 0 /\ str[Len(str)] = ch
DropLast(str) == SubSeq(str, 1, Len(str) - 1)

\* mutant: only the N channel gets its numeral
RenumberedNorthOnly(out_channel) ==
    IF EndsWith(out_channel, "N") THEN DropLast(out_channel) \o <<"1">>
    ELSE out_channel

\* the body of the loop of get_channel_map for a station with an orientation
\* overwrite
Renumbered(out_channel) ==
    IF EndsWith(out_channel, "N") THEN DropLast(out_channel) \o <<"1">>
    ELSE IF EndsWith(out_channel, "E") THEN DropLast(out_channel) \o <<"2">>
    ELSE out_channel

\* StationMapper.get_channel_map for a sensor of channel_map
get_channel_map(sensor, station) ==
    LET sensor_map == channel_map[sensor]
    IN IF station \in overwrites
       THEN [in_channel \in DOMAIN sensor_map |-> Renumbered(sensor_map[in_channel])]
       ELSE sensor_map

\* Station.get_channel_map of the i-th station of _features, whose parent
\* load_geopackage has set
MapperGetChannelMap(i) ==
    /\ UNCHANGED nonMapperVars
    /\ mStage = "ready"
    /\ i \in 1..Len(mFeatures)
    /\ mFeatures[i].seismic_sensor \in DOMAIN channel_map
    /\ mOut' = [op |-> "get_channel_map", station |-> i,
                map |-> get_channel_map(mFeatures[i].seismic_sensor, mFeatures[i].name)]
    /\ UNCHANGED <<mStage, geopackage, overwrites, mVerdict, mFeatures>>

MapperNext ==
    \/ MapperPrepare
    \/ \E p \in Positions : MapperGetStation(p)
    \/ \E i \in 1..MaxFeatures + 1 : MapperGetChannelMap(i)

MapperSpec == MapperInit /\ [][MapperNext]_vars

\* ------------------------------------------------------------------ C23
\* get_station returned for a non-empty catalog
StationAsked == mOut.op = "get_station" /\ ~mOut.raised

\* the entry of the catalog nearest to the site asked for, the first of them
\* in catalog order, when that distance is at most the threshold; else 0.
\* An entry with a NaN coordinate has no distance and is never the nearest.
NearestWithin ==
    LET located == {i \in 1..Len(mFeatures) : mFeatures[i].pos # NaN}
        dist(i) == surface_distance_to(mFeatures[i].pos, mOut.site)
        nearest == {i \in located : \A j \in located : dist(i) <= dist(j)}
    IN IF nearest # {} /\ dist(SetMin(nearest)) <= distance_threshold
       THEN SetMin(nearest)
       ELSE 0

\* C23: for a non-empty catalog and any site, get_station returns the entry
\* at the minimum surface distance when that distance is within the threshold
\* (25 m included), the first such entry in catalog order when several are
\* equally near, and none otherwise.
C23_NearestStation == StationAsked => mOut.result = NearestWithin

\* the same for the catalogs whose entries all have coordinates
C23_NearestStationLocated ==
    StationAsked /\ (\A i \in 1..Len(mFeatures) : mFeatures[i].pos # NaN)
        => mOut.result = NearestWithin

\* two entries equally near and exactly at the threshold: the first is returned
C23_TieAtThreshold ==
    /\ StationAsked
    /\ Len(mFeatures) = 2
    /\ mFeatures[1].pos # NaN /\ mFeatures[2].pos # NaN
    /\ surface_distance_to(mFeatures[1].pos, mOut.site) = distance_threshold
    /\ surface_distance_to(mFeatures[2].pos, mOut.site) = distance_threshold
    /\ mOut.result = 1

\* ------------------------------------------------------------------ C24
\* get_channel_map returned for a station of the catalog
ChannelMapAsked == mOut.op = "get_channel_map"

\* C24: for every sensor type of channel_map, get_channel_map gives the
\* configured mapping of the raw channels (p0 of a "4.5hz" sensor becomes
\* EPZ); for a station with an orientation overwrite each output channel
\* ending in N ends in 1 instead, each ending in E ends in 2 instead, and
\* those ending in Z are as configured.
C24_ChannelRenaming ==
    ChannelMapAsked =>
        LET station == mFeatures[mOut.station]
            configured == channel_map[station.seismic_sensor]
        IN /\ DOMAIN mOut.map = DOMAIN configured
           /\ station.seismic_sensor = "4.5hz" => mOut.map["p0"] = <<"E", "P", "Z">>
           /\ \A raw \in DOMAIN configured :
                LET out == mOut.map[raw]
                    conf == configured[raw]
                IN IF station.name \in overwrites
                   THEN /\ Len(out) = Len(conf)
                        /\ DropLast(out) = DropLast(conf)
                        /\ EndsWith(conf, "N") => EndsWith(out, "1")
                        /\ EndsWith(conf, "E") => EndsWith(out, "2")
                        /\ EndsWith(conf, "Z") => out = conf
                   ELSE out = conf

\* the map of a "4.5hz" station with an orientation overwrite was asked for
C24_Witness ==
    /\ ChannelMapAsked
    /\ mFeatures[mOut.station].seismic_sensor = "4.5hz"
    /\ mFeatures[mOut.station].name \in overwrites
    /\ mOut.map = [raw \in {"p0", "p1", "p2"} |->
                      CASE raw = "p0" -> <<"E", "P", "Z">>
                        [] raw = "p1" -> <<"E", "P", "1">>
                        [] raw = "p2" -> <<"E", "P", "2">>]

\* ------------------------------------------------------------------ C25
\* a load() task raised: the task group cancelled its siblings and
\* _fetch_datacubes ended with the error
FetchFailed == fetchPc = "failed"

\* C25: when a task of the loader's task group fails, its sibling tasks are
\* cancelled and the run ends with the error: once nothing is left to run, no
\* load task is unfinished and the consumer of iter_datacubes is not waiting
\* in queue.get().
C25_FatalAbort ==
    FetchFailed /\ Quiescent
        => /\ AllLoadsOver(loadPc)
           /\ consPc # "getWait"

\* ------------------------------------------------------------------ C26
\* check_geopackage has run on the geopackage
Checked == mVerdict # "none"

\* the entries that count for the verdict and have one of the five defects
Defective ==
    {i \in 1..Len(geopackage) :
        /\ geopackage[i].status # "planned"
        /\ \/ Falsy(geopackage[i].station_name)
           \/ Falsy(geopackage[i].seismic_sensor)
           \/ ~geopackage[i].has_geometry
           \/ geopackage[i].pos = NaN
           \/ geopackage[i].elevation = 0}

\* C26: for every catalog check_geopackage completes; it returns False when
\* an entry that is not "planned" has no station name, no sensor type, no
\* geometry, a NaN coordinate or a zero elevation, and True otherwise, whatever
\* the "planned" entries are.
C26_Verdict ==
    Checked => mVerdict = IF Defective # {} THEN "False" ELSE "True"

\* the same for the catalogs whose counted entries all have a geometry
C26_VerdictWithGeometry ==
    Checked /\ (\A i \in 1..Len(geopackage) :
                   geopackage[i].status = "planned" \/ geopackage[i].has_geometry)
        => mVerdict = IF Defective # {} THEN "False" ELSE "True"

\* ------------------------------------------------------------------ C27
\* the lines of a file: the byte sequences ended by a line break, and what
\* is left behind the last line break
RECURSIVE LinesOf(_)
LinesOf(content) ==
    IF LineBreak \notin Range(content) THEN <<>>
    ELSE LET k == SetMin({i \in 1..Len(content) : content[i] = LineBreak})
         IN <<SubSeq(content, 1, k - 1)>> \o LinesOf(SubSeq(content, k + 1, Len(content)))

Unterminated(content) ==
    content # <<>> /\ content[Len(content)] # LineBreak

\* C27: while several writer tasks record their files, the progress file is
\* at every moment a sequence of whole lines, the line of each add_done call
\* being the path of its record, in the order of the calls, with no byte of
\* another path inside; a step only appends: what was written stays as it was.
C27_SerializedAppends ==
    [][/\ ~Unterminated(progressFile')
       /\ LinesOf(progressFile') = [i \in 1..Len(doneLog') |-> PathBytes(doneLog'[i])]
       /\ Len(progressFile') >= Len(progressFile)
       /\ SubSeq(progressFile', 1, Len(progressFile)) = progressFile]_vars

\* two records are logged while the worker of a third, created before the
\* second of them, has not finished
C27_Witness ==
    /\ Len(LinesOf(progressFile)) = 2
    /\ \E t \in WorkerTasks : t < doneLog[2] /\ wPc[t] # "finished"

\* ------------------------------------------------------------------ C28
\* _async_save has returned: every record of the sequence got its worker and
\* every worker has encoded and finished
WriterTerminated ==
    /\ wStage = "done"
    /\ Len(wPc) = Len(wInput)
    /\ Range(encodeOrder) = 1..Len(wInput)
    /\ Len(encodeOrder) = Len(wInput)
    /\ \A t \in WorkerTasks : wPc[t] = "finished"

\* C28: for every finite sequence of resolved records, every mix of device
\* ids and every write_threads >= 1, when each encode returns, every record
\* has its encode performed (once) and the writer terminates: taking a permit
\* of the limit and then the lock of the device never deadlocks.
C28_WriterTermination == <>WriterTerminated

\* the writer has ended with one permit for three records, two of them of the
\* same device
C28_Witness ==
    /\ WriterTerminated
    /\ write_threads = 1
    /\ Len(wInput) = 3
    /\ \E t, u \in WorkerTasks : t # u /\ WDev(t) = WDev(u)
    /\ \E t, u \in WorkerTasks : WDev(t) # WDev(u)

\* ------------------------------------------------------------------ C29
\* prepare() returned normally: the catalog is loaded and the mapper in use
Prepared == mStage = "ready"

\* C29: prepare() does not complete normally with a loaded catalog when the
\* catalog is structurally invalid: it returns normally only when
\* check_geopackage gave True, so that no catalog with a defective entry is
\* in use.
C29_PrepareVerdict ==
    Prepared => mVerdict = "True" /\ Defective = {}

\* ------------------------------------------------------------------ C30
\* C30: with an allow-list configured, every file of the discovered candidate
\* set has a device id, as derived for its record and for the statistics from
\* the suffix of its path, that is in the allow-list; with an empty allow-list
\* a scanned file is left out only by another filter (done before, duplicate
\* name, size, time window, format).
C30_AllowList ==
    /\ cube_ids # {} => \A f \in files : CubeIdOf(PathOf(f)) \in cube_ids
    /\ cube_ids = {}
          => \A f \in scanned \ files :
                \/ PathOf(f) \in done_paths
                \/ PathName(PathOf(f)) \in filenames
                \/ ~Disk[f].big
                \/ ~Disk[f].recent
                \/ ~Disk[f].cube

\* the second half alone: an empty allow-list rejects nothing
C30_EmptyAllowList ==
    cube_ids = {}
        => \A f \in scanned \ files :
              PathOf(f) \in done_paths \/ PathName(PathOf(f)) \in filenames

\* ------------------------------------------------------------------ C31
\* C31: over all directories the candidate set never holds two files with
\* the same file name; a scanned file that was left out, a duplicate of an
\* accepted name among them, is never decoded nor yielded.
C31_NoDuplicateNames ==
    /\ \A f, g \in files : PathName(PathOf(f)) = PathName(PathOf(g)) => f = g
    /\ \A f \in scanned \ files :
          /\ decodeRuns[f] = 0
          /\ f \notin Range(delivered)
          /\ \A t \in LoadTasks : loadFile[t] # f

\* two files of the same name in two directories were both scanned, one was
\* dropped as a duplicate and the other has been yielded
C31_Witness ==
    \E f \in files, g \in scanned \ files :
        /\ PathName(PathOf(f)) = PathName(PathOf(g))
        /\ PathOf(g) \notin done_paths
        /\ cube_ids = {}
        /\ f \in Range(delivered)

\* ------------------------------------------------------------------ C32
\* the records whose round of process_datacubes ran to its end
Resolved == {k \in 1..Len(sFed) : sLookups[k] >= 0}

\* C32: the records the resolver yields are the records it took from its
\* input, without the dropped (blacklisted) ones, in the order they were
\* taken and each once; a record is resolved (add-or-merge, then lookup) in
\* the round that took it, before the next one is taken.
C32_OrderPreserved ==
    /\ \A i, j \in 1..Len(sOut) : i < j => sOut[i].cube < sOut[j].cube
    /\ {sOut[i].cube : i \in 1..Len(sOut)} = {k \in Resolved : ~Blacklisted(k)}
    /\ Len(sLookups) = Len(sFed)
    /\ \A k \in 1..Len(sFed) : sLookups[k] < 0 => k = Len(sFed) /\ sStage = "failed"

\* three records were taken, the second was dropped for its blacklisted
\* station and the other two were yielded
C32_Witness ==
    /\ Len(sFed) = 3
    /\ Blacklisted(2)
    /\ Len(sOut) = 2
    /\ sOut[1].cube = 1
    /\ sOut[2].cube = 3

OwnSite ==
    LET close == CloseSites(SitesBefore, from_datacube_trace(FedNow))
    IN IF close # {} THEN SetMin(close) ELSE Len(SitesBefore) + 1

\* C34: for a record with a valid fix, whatever records of its device came
\* before, the Site that get_site selects right after add_site, whose station
\* names the record, is the Site its own fix created or was merged into.
C34_NamedAfterOwnSite ==
    [][LocatedRound /\ sStage' = "run"
          => sLookups'[Len(sLookups')] = OwnSite]_vars

\* ------------------------------------------------------------------ C35
\* the records a load() task has decoded and not yet put on the channel
DecodedUnqueued == {t \in LoadTasks : loadPc[t] = "decoded" /\ loadResult[t] = "ok"}

\* the records held by worker tasks of the writer: created for them, waiting
\* for a permit or the device lock, encoding, or not yet returned
HeldByWriter == {t \in WorkerTasks : wPc[t] # "finished"}

\* C35: in every state the records decoded and not yet written (on the
\* channel, on their way to it, or held by a writer task) number at most
\* channel capacity + decode cap + write_threads, however many records come
\* and however slow the encode is.
C35_PipelineBound ==
    Cardinality(RecordsQueued) + Cardinality(DecodedUnqueued)
            + Cardinality(DecodesInFlight) + Cardinality(HeldByWriter)
        <= queue_size + (PyRoundHalf(queue_size) + 1) + write_threads

\* ------------------------------------------------------------------ C36
\* C36: decode never raises: every from_file call that has ended gave a
\* record or None, also where the decoder yields no trace for the file, and
\* no load() task ends with an exception of it.
C36_DecodeNeverRaises ==
    \A t \in LoadTasks :
        /\ loadResult[t] \in {"", "ok", "fail"}
        /\ loadPc[t] # "raised"

\* ------------------------------------------------------------------ C37
\* the Station Directory is there and holds no station
EmptyCatalog == sConf.mapper /\ sConf.features = <<>>

\* a round whose record has a fix that is not close to a site of its cube
UnmatchedRound ==
    /\ sStage = "run"
    /\ Len(sFed') = Len(sFed) + 1
    /\ from_datacube_trace(FedNow) # None
    /\ CloseSites(SitesBefore, from_datacube_trace(FedNow)) = {}

\* C37: empty catalog: with no station in the Station Directory get_station
\* gives none without raising, so the round goes on and add_site appends the
\* site without a station: n_sites one more, n_stations unchanged.
C37_EmptyCatalogAppends ==
    [][UnmatchedRound /\ EmptyCatalog
          => /\ sStage' = "run"
             /\ Len(SitesAfter) = Len(SitesBefore) + 1
             /\ SitesAfter[Len(SitesAfter)].station = 0
             /\ sStats'.n_sites = sStats.n_sites + 1
             /\ sStats'.n_stations = sStats.n_stations]_vars
====
